---- MODULE Spec2Model ----
(***************************************************************************)
(* Actisense SDK: the BEM request/response engine (BemProtocol), the       *)
(* session (SessionImpl) with its receive thread, and the loopback         *)
(* transport the session runs over, as one state machine.                  *)
(*                                                                         *)
(* Threads: "rx" is the session's receive thread (receiveThreadFunc),      *)
(* "app" is an application thread calling the session API, "dev" is the    *)
(* device side of the loopback transport (injectData).  A mutex-protected  *)
(* critical section that invokes no callback is one step; a callback       *)
(* invocation is a step of its own, so that the lock state at the moment   *)
(* of the call and every interleaving around it are visible.               *)
(***************************************************************************)
EXTENDS Integers, Sequences, FiniteSets, TLC

(* ------------------------------ bounds --------------------------------- *)

\* number of sendBemCommand / getOperatingMode calls the application makes
MaxRequests == 2
\* number of injectData calls the device side makes
MaxResponses == 1
\* horizon of the monotonic clock, in milliseconds
MaxClock == 1
\* capacity of the loopback transport's message buffer
MaxPendingMessages == 1
\* number of bytes fed to the framer one at a time
MaxBytes == 8
\* the ring's Capacity is 2^RingBits
RingBits == 2
\* write calls are made while fewer than MaxHead bytes have been accepted
MaxHead == 8
\* largest span handed to write, read and peek
MaxSpan == 3
\* number of parse calls that hand the framer a whole or damaged frame
MaxSegments == 3
\* length of a byte stream handed to the framer in chunks
MaxStream == 7
\* number of injectData calls of a device that streams unsolicited frames
MaxMessages == 3
\* messages a message buffer or a transport accepts during a run
MaxAccepted == 5
\* asyncSend and injectData calls made on the transport during a run
MaxSends == 3
\* asyncRecv calls made on the transport during a run
MaxRecvs == 3

(* ------------------------- protocol constants -------------------------- *)

DLE == 16
STX == 2
ETX == 3
kMaxFrameSize == 512

Nmea2000_GatewayToPC == 147
Nmea2000_PCToGateway == 148
CanFrame == 149
Nmea2000_D0 == 208
Bem_GP_A0 == 160
Bem_GP_A2 == 162
Bem_GP_A3 == 163
Bem_GP_A5 == 165
Bem_PG_A1 == 161
Bem_PG_A4 == 164
Bem_PG_A6 == 166
Bem_PG_A8 == 168

GetSetOperatingMode == 17
SystemStatus == 242
kBemGP_OffBemId == 0
kBemGP_OffSeqId == 1
kBemGP_OffModelId == 2
kBemGP_OffSerial == 4
kBemGP_OffError == 8
kBemGP_OffData == 12

\* bst_types.hpp isBemResponse
isBemResponse(id) == id \in {Bem_GP_A0, Bem_GP_A2, Bem_GP_A3, Bem_GP_A5}

\* Faulty variant of isBemCommand: a range test instead of the four ids.
isBemCommandByRange(id) == id >= Nmea2000_GatewayToPC /\ id <= Bem_PG_A8

\* bst_types.hpp isBemCommand
isBemCommand(id) == id \in {Bem_PG_A1, Bem_PG_A4, Bem_PG_A6, Bem_PG_A8}

(* ------------------------- BDTP: pure functions ------------------------ *)

\* the summing loop over data, started at sum; a long span is summed as its first
\* half followed by its second half, which keeps the evaluation shallow
RECURSIVE ChecksumFrom(_, _)
ChecksumFrom(sum, data) ==
    IF data = <<>> THEN sum
    ELSE IF Len(data) = 1 THEN (sum + data[1]) % 256
    ELSE \* s is bound through a set, which has it evaluated once
         CHOOSE r \in {ChecksumFrom(s, SubSeq(data, (Len(data) \div 2) + 1, Len(data))) :
                          s \in {ChecksumFrom(sum, SubSeq(data, 1, Len(data) \div 2))}} : TRUE

\* BdtpProtocol::calculateChecksum: the 8-bit sum of the bytes
calculateChecksum(data) == ChecksumFrom(0, data)

\* static_cast<uint8_t>(-sum)
NegU8(sum) == (256 - sum) % 256

\* Faulty variant of the escaping loop of encodeFrame: no byte is doubled.
EscapeNothing(data) == data

\* the escaping loop of encodeFrame: every DLE doubled (a long span as its first
\* half followed by its second half)
RECURSIVE EscapeDLE(_)
EscapeDLE(data) ==
    IF data = <<>> THEN <<>>
    ELSE IF Len(data) = 1 THEN (IF data[1] = DLE THEN <<DLE, DLE>> ELSE data)
    ELSE LET half == Len(data) \div 2
         IN  EscapeDLE(SubSeq(data, 1, half)) \o EscapeDLE(SubSeq(data, half + 1, Len(data)))

\* BdtpProtocol::encodeFrame: DLE STX <data, DLE doubled> DLE ETX
encodeFrame(data) == <<DLE, STX>> \o EscapeDLE(data) \o <<DLE, ETX>>

\* BdtpProtocol::encodeBst: id, 8-bit length, data, zero-sum checksum, framed
encodeBst(datagram) ==
    LET bstPayload == <<datagram.bstId, Len(datagram.data) % 256>> \o datagram.data
    IN  encodeFrame(bstPayload \o <<NegU8(calculateChecksum(bstPayload))>>)

\* BdtpProtocol::parseBstFromFrame
parseBstFromFrame(frameData) ==
    IF Len(frameData) < 3
    THEN [ok |-> FALSE, error |-> "BST frame too short"]
    ELSE LET storeLength == frameData[2]
             expectedSize == 2 + storeLength + 1
         IN  IF Len(frameData) < expectedSize
             THEN [ok |-> FALSE, error |-> "BST frame incomplete"]
             ELSE IF calculateChecksum(SubSeq(frameData, 1, expectedSize)) # 0
             THEN [ok |-> FALSE, error |-> "BST checksum mismatch"]
             ELSE [ok |-> TRUE,
                   datagram |-> [bstId |-> frameData[1],
                                 storeLength |-> storeLength,
                                 data |-> SubSeq(frameData, 3, 2 + storeLength)]]

\* An emitted datagram / an emitted error of the framer
EmitMessage(datagram) == [kind |-> "msg", datagram |-> datagram]
EmitError(message) == [kind |-> "err", code |-> "MalformedFrame", message |-> message]

\* BdtpProtocol::processCompletedFrame on framer p: the framer after it
\* (counters, cleared buffer) and what it emits
processCompletedFrame(p) ==
    IF p.frame_buffer_ = <<>>
    THEN [p |-> p, out |-> <<>>]
    ELSE LET r == parseBstFromFrame(p.frame_buffer_)
         IN  IF r.ok
             THEN [p |-> [p EXCEPT !.frames_received_ = @ + 1, !.frame_buffer_ = <<>>],
                   out |-> <<EmitMessage(r.datagram)>>]
             ELSE [p |-> [p EXCEPT !.frames_dropped_ = @ + 1, !.frame_buffer_ = <<>>],
                   out |-> <<EmitError(r.error)>>]

\* Faulty variant of the escaped-DLE branch: the framer stays in InFrameGotDLE.
escapedDLEStaysEscaped(p) ==
    [p EXCEPT !.frame_buffer_ = IF Len(@) < kMaxFrameSize THEN Append(@, DLE) ELSE @]

\* the branch of parse for DLE DLE inside a frame: a literal 0x10, if there is room
escapedDLE(p) ==
    [p EXCEPT !.frame_buffer_ = IF Len(@) < kMaxFrameSize THEN Append(@, DLE) ELSE @,
              !.state_ = "InFrame"]

\* Faulty variant of the abort branch: the bytes of the aborted frame are kept.
abortFrameKeepsBytes(p) ==
    [p EXCEPT !.frames_dropped_ = @ + 1, !.state_ = "InFrame"]

\* the branch of parse for DLE STX inside a frame, after its error: the frame in
\* progress is counted as dropped and a new one starts
abortFrame(p) ==
    [p EXCEPT !.frames_dropped_ = @ + 1, !.frame_buffer_ = <<>>, !.state_ = "InFrame"]

\* Faulty variant of the invalid-escape branch: the framer stays where it was.
invalidEscapeStays(p) ==
    [p EXCEPT !.frames_dropped_ = @ + 1, !.frame_buffer_ = <<>>]

\* the branch of parse for DLE followed by a byte that is none of ETX, DLE, STX,
\* after its error
invalidEscape(p) ==
    [p EXCEPT !.frames_dropped_ = @ + 1, !.state_ = "Idle", !.frame_buffer_ = <<>>]

\* Faulty variant of the double-DLE branch: the framer falls back to Idle.
doubleDLEOutsideToIdle(p) == [p EXCEPT !.state_ = "Idle"]

\* the branch of parse for a DLE that follows a DLE outside a frame: stay in GotDLE
doubleDLEOutside(p) == p

\* One iteration of the byte loop of BdtpProtocol::parse
parseByte(p, byte) ==
    CASE p.state_ = "Idle" ->
           [p |-> IF byte = DLE THEN [p EXCEPT !.state_ = "GotDLE"] ELSE p, out |-> <<>>]
      [] p.state_ = "GotDLE" ->
           [p |-> IF byte = STX THEN [p EXCEPT !.state_ = "InFrame", !.frame_buffer_ = <<>>]
                  ELSE IF byte = DLE THEN doubleDLEOutside(p)
                  ELSE [p EXCEPT !.state_ = "Idle"],
            out |-> <<>>]
      [] p.state_ = "InFrame" ->
           IF byte = DLE THEN [p |-> [p EXCEPT !.state_ = "InFrameGotDLE"], out |-> <<>>]
           ELSE IF Len(p.frame_buffer_) < kMaxFrameSize
           THEN [p |-> [p EXCEPT !.frame_buffer_ = Append(@, byte)], out |-> <<>>]
           ELSE [p |-> [p EXCEPT !.frames_dropped_ = @ + 1, !.state_ = "Idle",
                                 !.frame_buffer_ = <<>>],
                 out |-> <<EmitError("BDTP frame exceeds maximum size")>>]
      [] p.state_ = "InFrameGotDLE" ->
           IF byte = ETX
           THEN LET c == processCompletedFrame(p)
                IN  [p |-> [c.p EXCEPT !.state_ = "Idle"], out |-> c.out]
           ELSE IF byte = DLE
           THEN [p |-> escapedDLE(p), out |-> <<>>]
           ELSE IF byte = STX
           THEN [p |-> abortFrame(p),
                 out |-> <<EmitError("BDTP frame aborted - new frame started")>>]
           ELSE [p |-> invalidEscape(p),
                 out |-> <<EmitError("Invalid BDTP escape sequence")>>]

\* the byte loop of parse over data, from framer p with out already emitted; a long
\* span is run as its first half followed by its second half, which keeps the
\* evaluation shallow
RECURSIVE parseFrom(_, _, _)
parseFrom(p, data, out) ==
    IF data = <<>> THEN [p |-> p, out |-> out]
    ELSE IF Len(data) = 1
    THEN CHOOSE r \in {[p |-> s.p, out |-> out \o s.out] :
                          s \in {parseByte(p, data[1])}} : TRUE
    ELSE \* s is bound through a set, which has it evaluated once
         CHOOSE r \in {parseFrom(s.p, SubSeq(data, (Len(data) \div 2) + 1, Len(data)), s.out) :
                          s \in {parseFrom(p, SubSeq(data, 1, Len(data) \div 2), out)}} : TRUE

\* Faulty variant of parse: the framer state is a local of the call, Idle on entry.
parseFromIdle(p, data) == parseFrom([p EXCEPT !.state_ = "Idle"], data, <<>>)

\* Faulty variant of parse: what a call emits comes out newest first.
parseNewestFirst(p, data) ==
    LET r == parseFrom(p, data, <<>>)
    IN  [p |-> r.p, out |-> [i \in 1..Len(r.out) |-> r.out[Len(r.out) + 1 - i]]]

\* BdtpProtocol::parse: the framer after the bytes and, in order, what it emitted
parse(p, data) == parseFrom(p, data, <<>>)

\* BdtpProtocol::BdtpProtocol
NewBdtp == [state_ |-> "Idle", frame_buffer_ |-> <<>>,
            frames_received_ |-> 0, frames_dropped_ |-> 0]

(* -------------------------- BEM: pure functions ------------------------ *)

readU16LE(data, off) == data[off + 1] + 256 * data[off + 2]

readU32LE(data, off) ==
    data[off + 1] + 256 * data[off + 2] + 65536 * data[off + 3] + 16777216 * data[off + 4]

\* BemProtocol::encodeCommand: validation, BST payload, checksum, BDTP framing
encodeCommand(command) ==
    IF ~isBemCommand(command.bstId)
    THEN [ok |-> FALSE, outError |-> "Invalid BST ID for BEM command"]
    ELSE IF Len(command.data) > 252
    THEN [ok |-> FALSE, outError |-> "BEM command data too large"]
    ELSE LET storeLen == (1 + Len(command.data)) % 256
             bstPayload == <<command.bstId, storeLen, command.bemId>> \o command.data
         IN  [ok |-> TRUE,
              outFrame |-> encodeFrame(bstPayload
                                       \o <<NegU8(calculateChecksum(bstPayload))>>)]

\* BemProtocol::decodeResponse
decodeResponse(datagram) ==
    IF ~isBemResponse(datagram.bstId)
    THEN [ok |-> FALSE, outError |-> "Not a BEM response BST ID"]
    ELSE IF Len(datagram.data) < kBemGP_OffData
    THEN [ok |-> FALSE, outError |-> "BEM response too short"]
    ELSE [ok |-> TRUE,
          response |->
            [header |-> [bstId |-> datagram.bstId,
                         storeLength |-> datagram.storeLength,
                         bemId |-> datagram.data[kBemGP_OffBemId + 1],
                         sequenceId |-> datagram.data[kBemGP_OffSeqId + 1],
                         modelId |-> readU16LE(datagram.data, kBemGP_OffModelId),
                         serialNumber |-> readU32LE(datagram.data, kBemGP_OffSerial),
                         errorCode |-> readU32LE(datagram.data, kBemGP_OffError)],
             data |-> SubSeq(datagram.data, kBemGP_OffData + 1, Len(datagram.data)),
             checksumValid |-> TRUE]]

\* BemProtocol::buildResponseKey: bits 31-16 the BST id, bits 15-0 the BEM id
buildResponseKey(bstId, bemId) == (bstId % 65536) * 65536 + (bemId % 65536)

\* Faulty variant of the switch: every command is keyed under the A0 response id.
ResponseBstIdAlwaysA0(bstId) == Bem_GP_A0

\* the switch of BemProtocol::registerRequest: command BST id -> response BST id
ResponseBstId(bstId) ==
    CASE bstId = Bem_PG_A1 -> Bem_GP_A0
      [] bstId = Bem_PG_A4 -> Bem_GP_A2
      [] bstId = Bem_PG_A6 -> Bem_GP_A3
      [] bstId = Bem_PG_A8 -> Bem_GP_A5
      [] OTHER -> Bem_GP_A0


(* ----------------------- std::map helpers (pure) ----------------------- *)

\* Faulty variant of the assignment: an existing entry of that key is kept
\* (std::map::insert).
MapInsertIfAbsent(m, key, req) ==
    [k \in DOMAIN m \cup {key} |-> IF k \in DOMAIN m THEN m[k] ELSE req]

\* pending_requests_[key] = req: inserts, or overwrites the entry of that key
MapAssign(m, key, req) == [k \in DOMAIN m \cup {key} |-> IF k = key THEN req ELSE m[k]]

\* Faulty variant of the erase in correlateResponse: the entry stays in the table.
MapEraseForgotten(m, key) == m

\* Faulty variant of the erase in correlateResponse: the whole table is emptied.
MapEraseAll(m, key) == [k \in {} |-> m[k]]

\* pending_requests_.erase(it)
MapErase(m, key) == [k \in DOMAIN m \ {key} |-> m[k]]

\* the keys of a std::map in iteration order (ascending)
RECURSIVE KeysInOrder(_)
KeysInOrder(S) ==
    IF S = {} THEN <<>>
    ELSE LET lo == CHOOSE k \in S : \A j \in S : k <= j
         IN  <<lo>> \o KeysInOrder(S \ {lo})

\* Faulty variant of the sweep test: an entry expires only after its timeout.
IsExpiredStrict(req, now) == now - req.sentAt > req.timeout

\* the test of the sweep loop of BemProtocol::processTimeouts
IsExpired(req, now) == now - req.sentAt >= req.timeout

\* the callbacks processTimeouts moves to timedOut, in map order
TimedOutCallbacks(m, now) ==
    LET keys == KeysInOrder({k \in DOMAIN m : IsExpired(m[k], now)})
    IN  [i \in 1..Len(keys) |-> m[keys[i]].callback]

\* Faulty variant of the sweep: the expired entries stay in the table.
AfterSweepKeepsAll(m, now) == m

\* the entries processTimeouts leaves in the table
AfterSweep(m, now) == [k \in {j \in DOMAIN m : ~IsExpired(m[j], now)} |-> m[k]]

\* Faulty variant of the collect loop of clearPendingRequests: the first entry's
\* callback is not collected.
AllCallbacksButFirst(m) ==
    LET keys == KeysInOrder(DOMAIN m)
    IN  [i \in 1..(Len(keys) - 1) |-> m[keys[i + 1]].callback]

\* the callbacks clearPendingRequests collects, in map order
AllCallbacks(m) ==
    LET keys == KeysInOrder(DOMAIN m)
    IN  [i \in 1..Len(keys) |-> m[keys[i]].callback]

\* the table after the collect loop of clearPendingRequests
AfterClear(m) == [k \in {} |-> m[k]]

\* Faulty variant of the error mapping: the device error code is ignored.
CorrelatedCodeAlwaysOk(response) == "Ok"

\* the error code correlateResponse passes to the completion
CorrelatedCode(response) ==
    IF response.header.errorCode # 0 THEN "UnsupportedOperation" ELSE "Ok"

(* ------------------------------- inputs -------------------------------- *)

Threads == {"rx", "app", "dev"}

\* command payloads: none, a 2-byte operating mode, and one byte over the limit
BigData == [i \in 1..253 |-> 0]

\* SessionImpl::getOperatingMode builds this command
getOperatingModeCommand == [bstId |-> Bem_PG_A1, bemId |-> GetSetOperatingMode, data |-> <<>>]

\* the BemCommand values the application passes to sendBemCommand
Commands ==
    { getOperatingModeCommand,
      [bstId |-> Bem_PG_A4, bemId |-> GetSetOperatingMode, data |-> <<1, 2>>],
      [bstId |-> Nmea2000_GatewayToPC, bemId |-> GetSetOperatingMode, data |-> <<>>],
      [bstId |-> Bem_PG_A1, bemId |-> GetSetOperatingMode, data |-> BigData] }

\* the timeouts (ms) the application passes
Timeouts == {1}

\* BEM response body: bem id, sequence id, model id 0x000E, serial 1, error code (LE),
\* then a two-byte payload (the layout of kBemGP_Off*)
ResponseBody(bemId, seq, err) == <<bemId, seq, 14, 0, 1, 0, 0, 0, err, 0, 0, 0, 1, 2>>

\* what the device sends: responses to GetSetOperatingMode on A0 (without and with a
\* device error) and on A2.  The sequence id byte carries the number of the
\* injectData call, which tells the responses apart in the logs.
DeviceDatagrams(n) ==
    { [bstId |-> Bem_GP_A0, data |-> ResponseBody(GetSetOperatingMode, n, 0)],
      [bstId |-> Bem_GP_A0, data |-> ResponseBody(GetSetOperatingMode, n, 5)],
      [bstId |-> Bem_GP_A2, data |-> ResponseBody(GetSetOperatingMode, n, 0)] }

(* ------------------------------- state --------------------------------- *)

VARIABLES
    clock,               \* std::chrono::steady_clock, in ms
    pending_requests_,   \* BemProtocol: key -> PendingRequest
    bemMutex,            \* BemProtocol::mutex_: "free" or the thread holding it
    sequence_counter_,   \* BemProtocol: uint8_t
    is_open_,            \* LoopbackTransport
    loopback_enabled_,   \* LoopbackTransport
    messageBuffer_,      \* LoopbackTransport: queue of messages (byte sequences)
    pending_recvs_,      \* LoopbackTransport: queue of receive completions
    tMutex,              \* LoopbackTransport::mutex_: "free" or the thread holding it
    running_,            \* SessionImpl: std::atomic<bool>
    bdtp_,               \* SessionImpl: the BDTP framer
    bem_responses_received_, \* SessionImpl: statistics counter
    completed,           \* receiveThreadFunc: the loop-local std::atomic<bool>
    th,                  \* per thread: program counter, return stack and locals
    call,                \* sendBemCommand's locals: request, command, timeout, frame
    nextResp,            \* number of the next injectData call
    requests,            \* log: the sendBemCommand calls made so far
    completions,         \* log: per request, the invocations of its completion
    events,              \* log: invocations of eventCallback_
    errors,              \* log: invocations of errorCallback_
    fault,               \* "none", "ub" (a dangling store happened), "crashed"
    head_,               \* RingBuffer: std::atomic<std::size_t>, write position
    tail_,               \* RingBuffer: std::atomic<std::size_t>, read position
    buffer_,             \* RingBuffer: std::array<uint8_t, Capacity>, index -> byte
    producer,            \* the thread calling write: position and locals
    consumer,            \* the thread calling read: position and locals
    ringLog,             \* log: the bytes a FIFO queue would hold, the result of the
                         \* last call and what it should be, the bytes read so far
    maxMessages_,        \* MessageRingBuffer: capacity in messages
    total_bytes_sent_,   \* LoopbackTransport: statistics counter
    lbLog                \* log: the messages accepted, handed out and discarded so
                         \* far, the receives submitted with what their completions
                         \* were given, the number of sends and injections, what the
                         \* latest send completion was given, the last buffer call

vars == <<clock, pending_requests_, bemMutex, sequence_counter_, is_open_,
          loopback_enabled_, messageBuffer_, pending_recvs_, tMutex, running_, bdtp_,
          bem_responses_received_, completed, th, call, nextResp, requests,
          completions, events, errors, fault, head_, tail_, buffer_, producer,
          consumer, ringLog, maxMessages_, total_bytes_sent_, lbLog>>

bemVars == <<pending_requests_, bemMutex, sequence_counter_>>
tpVars == <<is_open_, loopback_enabled_, messageBuffer_, pending_recvs_, tMutex>>
logVars == <<requests, completions, events, errors>>
ringVars == <<head_, tail_, buffer_, producer, consumer, ringLog>>
loopVars == <<maxMessages_, total_bytes_sent_, lbLog>>

(* ------------------------------ RingBuffer ------------------------------ *)

\* the template parameter, a power of two (static_assert)
Capacity == 2 ^ RingBits

\* x & kMask, kMask == Capacity - 1 with Capacity a power of two
Masked(x) == x % Capacity

Min(a, b) == IF a < b THEN a ELSE b

\* Faulty variant of the space computation of write: one byte too many.
availableSpaceOneMore(head, tail) == Capacity - (head - tail) + 1

\* write: Capacity - (head - tail)
availableSpace(head, tail) == Capacity - (head - tail)

\* Faulty variant of the first chunk: nothing, every byte goes to the array's start.
firstChunkNone(count, index) == 0

\* write, read, peek: std::min(count, Capacity - index), the bytes up to the end
\* of the array
firstChunk(count, index) == Min(count, Capacity - index)

\* the array index of the i-th byte (from 0) of a copy of count bytes that starts at
\* position pos: in the first chunk from the masked position on, then from index 0
SlotOf(pos, count, i) ==
    IF i < firstChunk(count, Masked(pos)) THEN Masked(pos) + i
    ELSE i - firstChunk(count, Masked(pos))

\* the two std::copy_n of write: count bytes of data into buf from position pos
CopyIn(buf, pos, count, data) ==
    [k \in DOMAIN buf |->
        IF \E i \in 0..(count - 1) : SlotOf(pos, count, i) = k
        THEN data[(CHOOSE i \in 0..(count - 1) : SlotOf(pos, count, i) = k) + 1]
        ELSE buf[k]]

\* the two std::copy_n of read and peek: count bytes out of buf from position pos
CopyOut(buf, pos, count) ==
    [i \in 1..count |-> buf[SlotOf(pos, count, i - 1)]]

\* RingBuffer::write on the ring (head, tail, buf): the ring after it and the count
\* it returns
write(head, tail, buf, data) ==
    LET toWrite == Min(Len(data), availableSpace(head, tail))
    IN  IF toWrite = 0
        THEN [head |-> head, tail |-> tail, buf |-> buf, ret |-> 0]
        ELSE [head |-> head + toWrite, tail |-> tail,
              buf |-> CopyIn(buf, head, toWrite, data), ret |-> toWrite]

\* RingBuffer::peek into a span of size bytes: the bytes it copies out
peek(head, tail, buf, size) == CopyOut(buf, tail, Min(size, head - tail))

\* RingBuffer::read into a span of size bytes: the ring after it and the bytes read
read(head, tail, buf, size) ==
    LET out == peek(head, tail, buf, size)
    IN  [head |-> head, tail |-> tail + Len(out), buf |-> buf, ret |-> out]

\* RingBuffer::clear
clear(head, tail, buf) == [head |-> head, tail |-> head, buf |-> buf]

\* a thread that is not inside write or read
RingIdle == [pc |-> "idle", data |-> <<>>, size |-> 0, head |-> 0, tail |-> 0,
             count |-> 0, i |-> 0, out |-> <<>>]

NoRingCall == [op |-> "none", ret |-> 0, expect |-> 0]

\* RingBuffer::RingBuffer: head_(0), tail_(0), buffer_{}
(* -------------------------- MessageRingBuffer --------------------------- *)

\* Faulty variant of enqueue: the message is stored whether or not the buffer is full.
enqueueUnbounded(messages, max, message) ==
    [ok |-> TRUE, messages |-> Append(messages, message)]

\* MessageRingBuffer::enqueue on a buffer of capacity max: refused when
\* messages_.size() >= maxMessages_, else push_back
enqueue(messages, max, message) ==
    IF Len(messages) >= max
    THEN [ok |-> FALSE, messages |-> messages]
    ELSE [ok |-> TRUE, messages |-> Append(messages, message)]

\* Faulty variant of dequeue: the newest message is handed out.
dequeueNewest(messages) ==
    IF messages = <<>>
    THEN [has_value |-> FALSE, message |-> <<>>, messages |-> messages]
    ELSE [has_value |-> TRUE, message |-> messages[Len(messages)],
          messages |-> SubSeq(messages, 1, Len(messages) - 1)]

\* MessageRingBuffer::dequeue: std::nullopt when empty, else the front, popped
dequeue(messages) ==
    IF messages = <<>>
    THEN [has_value |-> FALSE, message |-> <<>>, messages |-> messages]
    ELSE [has_value |-> TRUE, message |-> Head(messages), messages |-> Tail(messages)]

RingInit ==
    /\ head_ = 0
    /\ tail_ = 0
    /\ buffer_ = [k \in 0..(Capacity - 1) |-> 0]
    /\ producer = RingIdle
    /\ consumer = RingIdle
    /\ ringLog = [queue |-> <<>>, last |-> NoRingCall, delivered |-> <<>>]

EmptyMap == [k \in {} |-> 0]

NoCall == [req |-> 0]

\* a thread that is not inside any call
ThreadAt(label) ==
    [pc |-> label, ret |-> <<>>, todo |-> <<>>, now |-> 0, held |-> <<>>,
     outs |-> <<>>, handle |-> "none"]

\* nothing logged yet
NoLoopLog ==
    [accepted |-> <<>>, delivered |-> <<>>, cleared |-> {}, recvs |-> <<>>,
     sends |-> 0, sent |-> <<>>, last |-> [op |-> "none"]]

\* LoopbackTransport::LoopbackTransport over a message buffer of capacity max, and
\* whether asyncOpen has been called since
TransportInit(open, max) ==
    /\ is_open_ = open
    /\ loopback_enabled_ = TRUE
    /\ messageBuffer_ = <<>>
    /\ pending_recvs_ = <<>>
    /\ tMutex = "free"
    /\ maxMessages_ = max
    /\ total_bytes_sent_ = 0
    /\ lbLog = NoLoopLog

\* SessionImpl constructed over a loopback transport, callbacks set, receive loop
\* not started yet (startReceiving is the next call); the framer member apart
SessionOver(open, max) ==
    /\ clock = 0
    /\ pending_requests_ = EmptyMap
    /\ bemMutex = "free"
    /\ sequence_counter_ = 0
    /\ TransportInit(open, max)
    /\ running_ = FALSE
    /\ bem_responses_received_ = 0
    /\ completed = FALSE
    /\ th = [t \in Threads |->
               ThreadAt(CASE t = "rx" -> "rx_none" [] t = "app" -> "app_idle"
                          [] OTHER -> "dev_idle")]
    /\ call = NoCall
    /\ nextResp = 1
    /\ requests = <<>>
    /\ completions = [r \in 1..MaxRequests |-> <<>>]
    /\ events = <<>>
    /\ errors = <<>>
    /\ fault = "none"
    /\ RingInit

\* the session over an opened transport
SessionInit == SessionOver(TRUE, MaxPendingMessages)

Init == SessionInit /\ bdtp_ = NewBdtp

Alive == fault # "crashed"

At(t, label) == Alive /\ th[t].pc = label

\* the thread record after returning to the label on top of its return stack
Returned(rec) == [rec EXCEPT !.pc = Head(rec.ret), !.ret = Tail(rec.ret)]

\* the log entry of one invocation of a request's completion; locked tells whether
\* the invoking thread held BemProtocol::mutex_ during the call
Invocation(t, code, response) ==
    [code |-> code, response |-> response, locked |-> (bemMutex = t)]

Invoke(t, req, code, response) ==
    completions' = [completions EXCEPT ![req] = Append(@, Invocation(t, code, response))]

(* ------------------------------ the clock ------------------------------ *)

Tick ==
    /\ Alive
    /\ clock < MaxClock
    /\ clock' = clock + 1
    /\ UNCHANGED <<ringVars, loopVars, bemVars, tpVars, logVars, running_, bdtp_, bem_responses_received_,
                   completed, th, call, nextResp, fault>>

(* --------------------- BemProtocol::processTimeouts -------------------- *)

\* entry: constructs timedOut and reads the clock (before taking the lock)
EnterProcessTimeouts(rec, retLabel) ==
    [rec EXCEPT !.pc = "pt_sweep", !.ret = <<retLabel>> \o @, !.now = clock, !.todo = <<>>]

\* the critical section: moves the expired entries' callbacks out of the table
PtSweep(t) ==
    /\ At(t, "pt_sweep")
    /\ bemMutex = "free"
    /\ LET cbs == TimedOutCallbacks(pending_requests_, th[t].now)
       IN  /\ pending_requests_' = AfterSweep(pending_requests_, th[t].now)
           /\ th' = [th EXCEPT ![t] = IF cbs = <<>> THEN Returned(@)
                                      ELSE [@ EXCEPT !.pc = "pt_invoke", !.todo = cbs]]
    /\ UNCHANGED <<ringVars, loopVars, clock, bemMutex, sequence_counter_, tpVars, logVars, running_, bdtp_,
                   bem_responses_received_, completed, call, nextResp, fault>>

\* the loop after the critical section: one callback(nullopt, Timeout) per step
PtInvoke(t) ==
    /\ At(t, "pt_invoke")
    /\ Invoke(t, Head(th[t].todo), "Timeout", <<>>)
    /\ th' = [th EXCEPT ![t] = IF Tail(@.todo) = <<>> THEN Returned([@ EXCEPT !.todo = <<>>])
                               ELSE [@ EXCEPT !.todo = Tail(@)]]
    /\ UNCHANGED <<ringVars, loopVars, clock, bemVars, tpVars, requests, events, errors, running_, bdtp_,
                   bem_responses_received_, completed, call, nextResp, fault>>

(* ------------------- BemProtocol::clearPendingRequests ----------------- *)

CpCollect(t) ==
    /\ At(t, "cp_collect")
    /\ bemMutex = "free"
    /\ LET cbs == AllCallbacks(pending_requests_)
       IN  /\ pending_requests_' = AfterClear(pending_requests_)
           /\ th' = [th EXCEPT ![t] = IF cbs = <<>> THEN Returned(@)
                                      ELSE [@ EXCEPT !.pc = "cp_invoke", !.todo = cbs]]
    /\ UNCHANGED <<ringVars, loopVars, clock, bemMutex, sequence_counter_, tpVars, logVars, running_, bdtp_,
                   bem_responses_received_, completed, call, nextResp, fault>>

\* the loop after the critical section: one callback(nullopt, Canceled) per step
CpInvoke(t) ==
    /\ At(t, "cp_invoke")
    /\ Invoke(t, Head(th[t].todo), "Canceled", <<>>)
    /\ th' = [th EXCEPT ![t] = IF Tail(@.todo) = <<>> THEN Returned([@ EXCEPT !.todo = <<>>])
                               ELSE [@ EXCEPT !.todo = Tail(@)]]
    /\ UNCHANGED <<ringVars, loopVars, clock, bemVars, tpVars, requests, events, errors, running_, bdtp_,
                   bem_responses_received_, completed, call, nextResp, fault>>


(* ------------------- BstDecoder / BstEncoder: fields ------------------- *)

\* offsets into the BST payload (after id and length) and minimum lengths
kBst94MinLength == 8
kBst94OffDataLen == 5
kBst94OffData == 6
kBstD0MinLength == 11
kBstD0OffData == 10

\* BstDecoder::calculatePgn
calculatePgn(pduf, pdus, dataPage) ==
    IF pduf >= 240 THEN dataPage * 65536 + pduf * 256 + pdus
    ELSE dataPage * 65536 + pduf * 256

\* BstDecoder::extractPduFields
extractPduFields(pgn) ==
    LET pduf == (pgn \div 256) % 256
    IN  [dataPage |-> (pgn \div 65536) % 4, pduf |-> pduf,
         pdus |-> IF pduf >= 240 THEN pgn % 256 ELSE 0]

\* the store length byte of encode94 computed without the uint8_t wrap
storeLen94Unwrapped(dataLen) == kBst94OffData + dataLen

\* encode94's const uint8_t storeLen = kBst94OffData + dataLen
storeLen94(dataLen) == (kBst94OffData + dataLen) % 256

\* BstEncoder::encode94
encode94(frame) ==
    IF Len(frame.data) > 255
    THEN [ok |-> FALSE, outData |-> <<>>, outError |-> "BST-94 data too large"]
    ELSE LET f == extractPduFields(frame.pgn)
             pdus == IF f.pduf < 240 THEN frame.destination ELSE f.pdus
             dataLen == Len(frame.data) % 256
         IN  [ok |-> TRUE,
              outData |-> <<Nmea2000_PCToGateway, storeLen94(dataLen), frame.priority % 8,
                            pdus, f.pduf, f.dataPage % 4, frame.destination, dataLen>>
                          \o frame.data,
              outError |-> ""]

\* BstDecoder::decode94
decode94(data) ==
    IF Len(data) < 2 + kBst94MinLength - 2
    THEN [ok |-> FALSE, outError |-> "BST-94 frame too short"]
    ELSE LET storeLen == data[2]
             payload == SubSeq(data, 3, Len(data))
             dataLen == payload[kBst94OffDataLen + 1]
         IN  IF Len(payload) < storeLen
             THEN [ok |-> FALSE, outError |-> "BST-94 payload truncated"]
             ELSE IF storeLen < kBst94OffData
             THEN [ok |-> FALSE, outError |-> "BST-94 store length too small"]
             ELSE IF storeLen < kBst94OffData + dataLen
             THEN [ok |-> FALSE, outError |-> "BST-94 data length exceeds store length"]
             ELSE [ok |-> TRUE,
                   frame |-> [bstId |-> Nmea2000_PCToGateway,
                              priority |-> payload[1] % 8,
                              pgn |-> calculatePgn(payload[3], payload[2], payload[4] % 4),
                              destination |-> payload[5],
                              source |-> 0,
                              data |-> SubSeq(payload, kBst94OffData + 1,
                                              kBst94OffData + dataLen)]]

\* BstDecoder::decodeD0
decodeD0(data) ==
    IF Len(data) < 3 THEN [ok |-> FALSE, outError |-> "BST-D0 frame too short"]
    ELSE LET storeLen == readU16LE(data, 1)
             payload == SubSeq(data, 4, Len(data))
         IN  IF Len(payload) < storeLen
             THEN [ok |-> FALSE, outError |-> "BST-D0 payload truncated"]
             ELSE IF storeLen < kBstD0MinLength
             THEN [ok |-> FALSE, outError |-> "BST-D0 store length too small"]
             ELSE [ok |-> TRUE,
                   frame |-> [bstId |-> Nmea2000_D0,
                              destination |-> payload[1],
                              source |-> payload[2],
                              priority |-> (payload[5] \div 4) % 8,
                              pgn |-> calculatePgn(payload[4], payload[3], payload[5] % 4),
                              messageType |-> payload[6] % 4,
                              direction |-> (payload[6] \div 8) % 2,
                              internalSource |-> (payload[6] \div 16) % 2 # 0,
                              fastPacketSeqId |-> (payload[6] \div 32) % 8,
                              timestamp |-> readU32LE(payload, 6),
                              data |-> SubSeq(payload, kBstD0OffData + 1, storeLen)]]

\* BstEncoder::encodeD0
encodeD0(frame) ==
    IF Len(frame.data) > 1785
    THEN [ok |-> FALSE, outData |-> <<>>, outError |-> "BST-D0 data too large"]
    ELSE LET f == extractPduFields(frame.pgn)
             pdus == IF f.pduf < 240 THEN frame.destination ELSE f.pdus
             storeLen == (kBstD0OffData + Len(frame.data)) % 65536
             dpp == (f.dataPage % 4) + (frame.priority % 8) * 4
             ctrl == (frame.messageType % 4) + (frame.direction % 2) * 8
                     + (IF frame.internalSource THEN 16 ELSE 0)
                     + (frame.fastPacketSeqId % 8) * 32
             ts == frame.timestamp
         IN  [ok |-> TRUE,
              outData |-> <<Nmea2000_D0, storeLen % 256, (storeLen \div 256) % 256,
                            frame.destination, frame.source, pdus, f.pduf, dpp, ctrl,
                            ts % 256, (ts \div 256) % 256, (ts \div 65536) % 256,
                            (ts \div 16777216) % 256>> \o frame.data,
              outError |-> ""]

(* ----------------------- BstDecoder::decode (dispatch) ----------------- *)

\* the result BstDecoder::decode builds from what a field decoder returned
DecodeResult(decoded) ==
    IF decoded.ok THEN [success |-> TRUE, frame |-> decoded.frame]
    ELSE [success |-> FALSE, error |-> decoded.outError]

\* The id dispatch of BstDecoder::decode.  The four supported ids go to their
\* field decoders; those of BST-93 and BST-95, which the inputs of this model never
\* reach, are left out, and the result then carries the raw record.
bstDecoderDecode(rawBst) ==
    IF rawBst = <<>> THEN [success |-> FALSE, error |-> "Empty BST data"]
    ELSE IF rawBst[1] = Nmea2000_PCToGateway THEN DecodeResult(decode94(rawBst))
    ELSE IF rawBst[1] = Nmea2000_D0 THEN DecodeResult(decodeD0(rawBst))
    ELSE IF rawBst[1] \in {Nmea2000_GatewayToPC, CanFrame}
    THEN [success |-> TRUE, frame |-> [bstId |-> rawBst[1], raw |-> rawBst]]
    ELSE [success |-> FALSE, error |-> <<"Unsupported BST ID: 0x", rawBst[1]>>]

\* the raw record SessionImpl::handleBstDatagram hands to the decoder
rawBstOf(datagram) ==
    IF datagram.bstId >= 208 /\ datagram.bstId <= 223
    THEN LET totalLen == (3 + Len(datagram.data)) % 65536
         IN  <<datagram.bstId, totalLen % 256, (totalLen \div 256) % 256>> \o datagram.data
    ELSE <<datagram.bstId, datagram.storeLength % 256>> \o datagram.data

(* ------------- the receive completion of receiveThreadFunc ------------- *)

\* completed.store(true) through a completion whose handle is h.  A "stale" handle
\* belongs to a loop iteration that has ended: the captured reference dangles and
\* the store is undefined behaviour, which either goes unnoticed or ends the process.
StoreCompleted(h) ==
    IF h = "live" THEN {[completed |-> TRUE, fault |-> fault]}
    ELSE {[completed |-> completed, fault |-> "ub"],
          [completed |-> completed, fault |-> "crashed"]}

\* the lambda's first part: code == Ok && !data.empty() -> processReceivedData,
\* which feeds the bytes to the framer; what the framer emits is handled one
\* emission per step by DlEmit
StartDelivery(t, rec, message, h, retLabels) ==
    LET r == IF message = <<>> THEN [p |-> bdtp_, out |-> <<>>] ELSE parse(bdtp_, message)
    IN  /\ bdtp_' = r.p
        /\ th' = [th EXCEPT ![t] = [rec EXCEPT !.pc = "dl", !.outs = r.out, !.handle = h,
                                               !.ret = retLabels \o @]]

\* the event SessionImpl::handleBemResponse emits for an uncorrelated response
UnsolicitedEvent(response) ==
    [protocol |-> "bem", messageType |-> <<"BEM_Response_", response.header.bemId>>,
     payload |-> response]

\* the event SessionImpl::handleBstFrame emits
BstEvent(frame) == [protocol |-> "bst", messageType |-> <<"BST_", frame.bstId>>,
                    payload |-> frame]

\* Faulty variant of handleBemResponse: the event is emitted whether or not the
\* response correlated.
CorrelateAndEmit(t, response, rest) ==
    LET key == buildResponseKey(response.header.bstId, response.header.bemId)
    IN  /\ bemMutex = "free"
        /\ events' = Append(events, UnsolicitedEvent(response))
        /\ IF key \notin DOMAIN pending_requests_
           THEN /\ th' = [th EXCEPT ![t].outs = rest]
                /\ UNCHANGED <<pending_requests_, bemMutex>>
           ELSE /\ pending_requests_' = MapErase(pending_requests_, key)
                /\ bemMutex' = t
                /\ th' = [th EXCEPT ![t] = [@ EXCEPT !.pc = "corr_cb", !.outs = rest,
                              !.held = <<[callback |-> pending_requests_[key].callback,
                                          response |-> response]>>]]

\* BemProtocol::correlateResponse up to the callback: under the lock, look the key
\* up; a miss returns false (and handleBemResponse emits the event); a hit erases the
\* entry and goes on, still holding the lock, to invoke the callback
CorrelateOrEmit(t, response, rest) ==
    LET key == buildResponseKey(response.header.bstId, response.header.bemId)
    IN  /\ bemMutex = "free"
        /\ IF key \notin DOMAIN pending_requests_
           THEN /\ events' = Append(events, UnsolicitedEvent(response))
                /\ th' = [th EXCEPT ![t].outs = rest]
                /\ UNCHANGED <<pending_requests_, bemMutex>>
           ELSE /\ pending_requests_' = MapErase(pending_requests_, key)
                /\ bemMutex' = t
                /\ th' = [th EXCEPT ![t] = [@ EXCEPT !.pc = "corr_cb", !.outs = rest,
                              !.held = <<[callback |-> pending_requests_[key].callback,
                                          response |-> response]>>]]
                /\ UNCHANGED events

\* processReceivedData's two emitters and SessionImpl::handleBstDatagram, for the
\* next thing the framer emitted
DlEmit(t) ==
    /\ At(t, "dl")
    /\ th[t].outs # <<>>
    /\ LET e == Head(th[t].outs)
           rest == Tail(th[t].outs)
       IN  IF e.kind = "err"
           THEN /\ errors' = Append(errors, [code |-> e.code, message |-> e.message])
                /\ th' = [th EXCEPT ![t].outs = rest]
                /\ UNCHANGED <<pending_requests_, bemMutex, events, bem_responses_received_>>
           ELSE IF isBemResponse(e.datagram.bstId)
           THEN LET dec == decodeResponse(e.datagram)
                IN  IF dec.ok
                    THEN /\ bem_responses_received_' = bem_responses_received_ + 1
                         /\ CorrelateOrEmit(t, dec.response, rest)
                         /\ UNCHANGED errors
                    ELSE /\ errors' = Append(errors, [code |-> "MalformedFrame",
                                                      message |-> dec.outError])
                         /\ th' = [th EXCEPT ![t].outs = rest]
                         /\ UNCHANGED <<pending_requests_, bemMutex, events,
                                        bem_responses_received_>>
           ELSE LET result == bstDecoderDecode(rawBstOf(e.datagram))
                IN  /\ IF result.success
                       THEN /\ events' = Append(events, BstEvent(result.frame))
                            /\ UNCHANGED errors
                       ELSE /\ errors' = Append(errors, [code |-> "MalformedFrame",
                                                         message |-> result.error])
                            /\ UNCHANGED events
                    /\ th' = [th EXCEPT ![t].outs = rest]
                    /\ UNCHANGED <<pending_requests_, bemMutex, bem_responses_received_>>
    /\ UNCHANGED <<ringVars, loopVars, clock, sequence_counter_, tpVars, running_, bdtp_, completed, call,
                   nextResp, requests, completions, fault>>

\* BemProtocol::correlateResponse, the hit: callback(response, ec, errorMsg), then
\* return true, which releases the lock_guard taken at the top of the function
CorrCallback(t) ==
    /\ At(t, "corr_cb")
    /\ LET h == Head(th[t].held)
       IN  Invoke(t, h.callback, CorrelatedCode(h.response), <<h.response>>)
    /\ bemMutex' = "free"
    /\ th' = [th EXCEPT ![t] = [@ EXCEPT !.pc = "dl", !.held = <<>>]]
    /\ UNCHANGED <<ringVars, loopVars, clock, pending_requests_, sequence_counter_, tpVars, running_, bdtp_,
                   bem_responses_received_, completed, call, nextResp, requests, events,
                   errors, fault>>

\* the lambda's last statement, completed.store(true), and its return
DlFinish(t) ==
    /\ At(t, "dl")
    /\ th[t].outs = <<>>
    /\ \E o \in StoreCompleted(th[t].handle) :
          /\ completed' = o.completed
          /\ fault' = o.fault
    /\ th' = [th EXCEPT ![t] = Returned([@ EXCEPT !.handle = "none"])]
    /\ UNCHANGED <<ringVars, loopVars, clock, bemVars, tpVars, logVars, running_, bdtp_,
                   bem_responses_received_, call, nextResp>>

(* -------------------------- LoopbackTransport -------------------------- *)

\* MessageRingBuffer::enqueue refuses when the buffer holds its maximum
BufferFull == Len(messageBuffer_) >= maxMessages_

\* the send completion of sendBemCommand: errorCallback_ on any code but Ok
SendCompleted(code) ==
    /\ requests' = [requests EXCEPT ![call.req].handed = TRUE, ![call.req].sendCode = code]
    /\ call' = NoCall
    /\ IF code # "Ok"
       THEN errors' = Append(errors, [code |-> code,
                                      message |-> "Failed to send BEM command"])
       ELSE UNCHANGED errors

\* LoopbackTransport::tryCompletePendingRecvs, one turn of its loop (lock held):
\* pair the oldest pending receive with the oldest message, or leave the loop.
\* Leaving it ends injectData (return, lock released) and all but ends asyncSend
\* (completion(Ok, n), return, lock released).
TcpLoop(t) ==
    /\ At(t, "tcp_loop")
    /\ IF pending_recvs_ # <<>> /\ messageBuffer_ # <<>>
       THEN /\ messageBuffer_' = Tail(messageBuffer_)
            /\ pending_recvs_' = Tail(pending_recvs_)
            /\ StartDelivery(t, th[t], Head(messageBuffer_), Head(pending_recvs_),
                             <<"tcp_loop">>)
            /\ UNCHANGED <<tMutex, requests, errors, call>>
       ELSE /\ th' = [th EXCEPT ![t] = Returned(@)]
            /\ tMutex' = "free"
            /\ IF t = "app" THEN SendCompleted("Ok")
                            ELSE UNCHANGED <<requests, errors, call>>
            /\ UNCHANGED <<messageBuffer_, pending_recvs_, bdtp_>>
    /\ UNCHANGED <<ringVars, loopVars, clock, bemVars, is_open_, loopback_enabled_, completions, events,
                   running_, bem_responses_received_, completed, nextResp, fault>>

\* LoopbackTransport::asyncRecv returns after completing at once: lock released
TpUnlock(t) ==
    /\ At(t, "tp_unlock")
    /\ tMutex' = "free"
    /\ th' = [th EXCEPT ![t] = Returned(@)]
    /\ UNCHANGED <<ringVars, loopVars, clock, bemVars, is_open_, loopback_enabled_, messageBuffer_,
                   pending_recvs_, logVars, running_, bdtp_, bem_responses_received_,
                   completed, call, nextResp, fault>>

\* LoopbackTransport::close cancels every pending receive: completion(Canceled, {})
\* runs the session's lambda, which only stores completed
CloseOutcomes ==
    LET hs == {pending_recvs_[i] : i \in 1..Len(pending_recvs_)}
    IN  {[completed |-> ("live" \in hs) \/ completed, fault |-> f] :
            f \in IF "stale" \in hs THEN {"ub", "crashed"} ELSE {fault}}

\* LoopbackTransport::close (one critical section)
TransportCloseEffect ==
    IF ~is_open_
    THEN UNCHANGED <<is_open_, messageBuffer_, pending_recvs_, completed, fault>>
    ELSE /\ is_open_' = FALSE
         /\ pending_recvs_' = <<>>
         /\ messageBuffer_' = <<>>
         /\ \E o \in CloseOutcomes : completed' = o.completed /\ fault' = o.fault

\* LoopbackTransport::injectData, called by the device side with one of the
\* messages; the device makes at most max calls
InjectDataOf(messages, max) ==
    /\ At("dev", "dev_idle")
    /\ th["app"].pc # "app_gone"
    /\ nextResp <= max
    /\ tMutex = "free"
    /\ nextResp' = nextResp + 1
    /\ \E data \in messages :
          IF ~is_open_ \/ BufferFull
          THEN UNCHANGED <<messageBuffer_, tMutex, th>>
          ELSE /\ messageBuffer_' = Append(messageBuffer_, data)
               /\ tMutex' = "dev"
               /\ th' = [th EXCEPT !["dev"] =
                           [@ EXCEPT !.pc = "tcp_loop", !.ret = <<"dev_idle">>]]
    /\ UNCHANGED <<ringVars, loopVars, clock, bemVars, is_open_, loopback_enabled_, pending_recvs_, logVars,
                   running_, bdtp_, bem_responses_received_, completed, call, fault>>

\* the device sends one BDTP-framed datagram per call
Encoded(datagrams) == {encodeBst(d) : d \in datagrams}

InjectData == InjectDataOf(Encoded(DeviceDatagrams(nextResp)), MaxResponses)

\* LoopbackTransport::setLoopbackEnabled
SetLoopbackEnabled ==
    /\ At("app", "app_idle")
    /\ requests = <<>> /\ nextResp = 1 /\ ~running_ /\ th["rx"].pc = "rx_none"
    /\ tMutex = "free"
    /\ loopback_enabled_' = ~loopback_enabled_
    /\ UNCHANGED <<ringVars, loopVars, clock, bemVars, is_open_, messageBuffer_, pending_recvs_, tMutex,
                   logVars, running_, bdtp_, bem_responses_received_, completed, th, call,
                   nextResp, fault>>

\* the application closes the transport underneath the session (transport()->close())
TransportClose ==
    /\ At("app", "app_idle")
    /\ tMutex = "free"
    /\ is_open_
    /\ TransportCloseEffect
    /\ UNCHANGED <<ringVars, loopVars, clock, bemVars, loopback_enabled_, tMutex, logVars, running_, bdtp_,
                   bem_responses_received_, th, call, nextResp>>

\* the application opens the transport through the session's accessor
\* (transport()->asyncOpen(config, completion)): LoopbackTransport::asyncOpen
TransportOpen ==
    /\ At("app", "app_idle")
    /\ tMutex = "free"
    /\ IF is_open_
       THEN UNCHANGED <<is_open_, messageBuffer_>>
       ELSE /\ is_open_' = TRUE
            /\ messageBuffer_' = <<>>
    /\ UNCHANGED <<ringVars, loopVars, clock, bemVars, loopback_enabled_, pending_recvs_, tMutex, logVars,
                   running_, bdtp_, bem_responses_received_, completed, th, call,
                   nextResp, fault>>

(* ------------------------------ SessionImpl ---------------------------- *)

\* SessionImpl::startReceiving: running_.exchange(true), then the thread is created.
\* Assigning to a std::thread that is still joinable (the loop ran and nobody joined
\* it) calls std::terminate.
StartReceiving ==
    /\ At("app", "app_idle")
    /\ IF running_
       THEN UNCHANGED <<running_, th, fault>>
       ELSE /\ running_' = TRUE
            /\ IF th["rx"].pc = "rx_none"
               THEN th' = [th EXCEPT !["rx"] = ThreadAt("rx_loop")] /\ UNCHANGED fault
               ELSE fault' = "crashed" /\ UNCHANGED th
    /\ UNCHANGED <<ringVars, loopVars, clock, bemVars, tpVars, logVars, bdtp_, bem_responses_received_,
                   completed, call, nextResp>>

\* the receive loop's pending handles all belong to iterations that have ended once
\* the loop head is reached again
Stale(recvs) == [i \in 1..Len(recvs) |-> "stale"]

\* receiveThreadFunc: while (running_ && isConnected()), and the declaration of the
\* iteration's flag, std::atomic<bool> completed{false}
RxLoop ==
    /\ At("rx", "rx_loop")
    /\ running_ => tMutex = "free"
    /\ pending_recvs_' = Stale(pending_recvs_)
    /\ IF running_ /\ is_open_
       THEN /\ completed' = FALSE
            /\ th' = [th EXCEPT !["rx"].pc = "rx_recv"]
       ELSE /\ UNCHANGED completed
            /\ th' = [th EXCEPT !["rx"].pc = "rx_exit"]
    /\ UNCHANGED <<ringVars, loopVars, clock, bemVars, is_open_, loopback_enabled_, messageBuffer_, tMutex,
                   logVars, running_, bdtp_, bem_responses_received_, call, nextResp, fault>>

\* receiveThreadFunc's transport_->asyncRecv(lambda): LoopbackTransport::asyncRecv
RxRecv ==
    /\ At("rx", "rx_recv")
    /\ tMutex = "free"
    /\ IF ~is_open_
       THEN /\ completed' = TRUE
            /\ th' = [th EXCEPT !["rx"].pc = "rx_wait"]
            /\ UNCHANGED <<messageBuffer_, pending_recvs_, tMutex, bdtp_>>
       ELSE IF messageBuffer_ # <<>>
       THEN /\ messageBuffer_' = Tail(messageBuffer_)
            /\ tMutex' = "rx"
            /\ StartDelivery("rx", th["rx"], Head(messageBuffer_), "live",
                             <<"tp_unlock", "rx_wait">>)
            /\ UNCHANGED <<pending_recvs_, completed>>
       ELSE /\ pending_recvs_' = Append(pending_recvs_, "live")
            /\ th' = [th EXCEPT !["rx"].pc = "rx_wait"]
            /\ UNCHANGED <<messageBuffer_, tMutex, bdtp_, completed>>
    /\ UNCHANGED <<ringVars, loopVars, clock, bemVars, is_open_, loopback_enabled_, logVars, running_,
                   bem_responses_received_, call, nextResp, fault>>

\* Faulty variant of the wait loop: the loop does not wait for the completion and
\* goes on to the next iteration after one processTimeouts.
RxNoWait ==
    /\ At("rx", "rx_wait")
    /\ th' = [th EXCEPT !["rx"] = EnterProcessTimeouts(@, "rx_loop")]
    /\ UNCHANGED <<ringVars, loopVars, clock, bemVars, tpVars, logVars, running_, bdtp_,
                   bem_responses_received_, completed, call, nextResp, fault>>

\* receiveThreadFunc's wait loop, while (!completed && running_ && isConnected()),
\* whose body is processTimeouts() and a sleep, and the processTimeouts() after it
RxWait ==
    /\ At("rx", "rx_wait")
    /\ (~completed /\ running_) => tMutex = "free"
    /\ IF ~completed /\ running_ /\ is_open_
       THEN th' = [th EXCEPT !["rx"] = EnterProcessTimeouts(@, "rx_wait")]
       ELSE th' = [th EXCEPT !["rx"] = EnterProcessTimeouts(@, "rx_loop")]
    /\ UNCHANGED <<ringVars, loopVars, clock, bemVars, tpVars, logVars, running_, bdtp_,
                   bem_responses_received_, completed, call, nextResp, fault>>

\* SessionImpl::processTimeouts called by the application
AppProcessTimeouts ==
    /\ At("app", "app_idle")
    /\ th' = [th EXCEPT !["app"] = EnterProcessTimeouts(@, "app_idle")]
    /\ UNCHANGED <<ringVars, loopVars, clock, bemVars, tpVars, logVars, running_, bdtp_,
                   bem_responses_received_, completed, call, nextResp, fault>>

\* what the model remembers of a sendBemCommand call
RequestRecord(command, timeout, encoded) ==
    [command |-> command, timeout |-> timeout, encoded |-> encoded, registered |-> FALSE,
     key |-> 0, sentAt |-> 0, handed |-> FALSE, sendCode |-> "none"]

\* BemProtocol::registerRequest, called by sendBemCommand for its request r
registerRequest(commandId, commandBstId, timeout, r) ==
    LET key == buildResponseKey(ResponseBstId(commandBstId), commandId)
        req == [commandId |-> commandId, sentAt |-> clock, timeout |-> timeout,
                callback |-> r]
    IN  /\ bemMutex = "free"
        /\ sequence_counter_' = (sequence_counter_ + 1) % 256
        /\ pending_requests_' = MapAssign(pending_requests_, key, req)

\* Faulty variant of sendBemCommand: the frame goes to the transport without the
\* request having been registered.
SendBemCommandUnregistered(command, timeout) ==
    /\ At("app", "app_idle")
    /\ Len(requests) < MaxRequests
    /\ clock + timeout <= MaxClock
    /\ LET r == Len(requests) + 1
           enc == encodeCommand(command)
       IN  IF ~enc.ok
           THEN /\ Invoke("app", r, "InvalidArgument", <<>>)
                /\ requests' = Append(requests, RequestRecord(command, timeout, FALSE))
                /\ UNCHANGED <<th, call>>
           ELSE /\ requests' = Append(requests, RequestRecord(command, timeout, TRUE))
                /\ call' = [req |-> r, frame |-> enc.outFrame]
                /\ th' = [th EXCEPT !["app"].pc = "sbc_send"]
                /\ UNCHANGED completions
    /\ UNCHANGED <<ringVars, loopVars, clock, bemVars, tpVars, events, errors, running_, bdtp_,
                   bem_responses_received_, completed, nextResp, fault>>

\* SessionImpl::sendBemCommand up to the send: encodeCommand, on its failure
\* callback(nullopt, InvalidArgument, error) and return, else registerRequest
SendBemCommandCall(command, timeout) ==
    /\ At("app", "app_idle")
    /\ Len(requests) < MaxRequests
    /\ clock + timeout <= MaxClock
    /\ LET r == Len(requests) + 1
           enc == encodeCommand(command)
       IN  IF ~enc.ok
           THEN /\ Invoke("app", r, "InvalidArgument", <<>>)
                /\ requests' = Append(requests, RequestRecord(command, timeout, FALSE))
                /\ UNCHANGED <<th, call, pending_requests_, sequence_counter_>>
           ELSE /\ registerRequest(command.bemId, command.bstId, timeout, r)
                /\ requests' = Append(requests,
                      [RequestRecord(command, timeout, TRUE) EXCEPT
                          !.registered = TRUE,
                          !.key = buildResponseKey(ResponseBstId(command.bstId),
                                                   command.bemId),
                          !.sentAt = clock])
                /\ call' = [req |-> r, frame |-> enc.outFrame]
                /\ th' = [th EXCEPT !["app"].pc = "sbc_send"]
                /\ UNCHANGED completions
    /\ UNCHANGED <<ringVars, loopVars, clock, bemMutex, tpVars, events, errors, running_, bdtp_,
                   bem_responses_received_, completed, nextResp, fault>>

SendBemCommand == \E command \in Commands, timeout \in Timeouts :
                     SendBemCommandCall(command, timeout)

\* SessionImpl::getOperatingMode
GetOperatingMode == \E timeout \in Timeouts :
                       SendBemCommandCall(getOperatingModeCommand, timeout)

\* sendBemCommand's transport_->asyncSend(frame, lambda): LoopbackTransport::asyncSend
SbcSend ==
    /\ At("app", "sbc_send")
    /\ tMutex = "free"
    /\ IF ~is_open_
       THEN /\ SendCompleted("NotConnected")
            /\ th' = [th EXCEPT !["app"].pc = "app_idle"]
            /\ UNCHANGED <<messageBuffer_, tMutex>>
       ELSE IF loopback_enabled_ /\ BufferFull
       THEN /\ SendCompleted("RateLimited")
            /\ th' = [th EXCEPT !["app"].pc = "app_idle"]
            /\ UNCHANGED <<messageBuffer_, tMutex>>
       ELSE IF loopback_enabled_
       THEN /\ messageBuffer_' = Append(messageBuffer_, call.frame)
            /\ tMutex' = "app"
            /\ requests' = [requests EXCEPT ![call.req].handed = TRUE]
            /\ th' = [th EXCEPT !["app"] =
                        [@ EXCEPT !.pc = "tcp_loop", !.ret = <<"app_idle">>]]
            /\ UNCHANGED <<errors, call>>
       ELSE /\ SendCompleted("Ok")
            /\ th' = [th EXCEPT !["app"].pc = "app_idle"]
            /\ UNCHANGED <<messageBuffer_, tMutex>>
    /\ UNCHANGED <<ringVars, loopVars, clock, bemVars, is_open_, loopback_enabled_, pending_recvs_,
                   completions, events, running_, bdtp_, bem_responses_received_,
                   completed, nextResp, fault>>

\* SessionImpl::close, first statement: running_ = false.  after names what follows
\* the close: the return to the caller, or the members' destructors.
CloseCall(after) ==
    /\ At("app", "app_idle")
    /\ running_' = FALSE
    /\ th' = [th EXCEPT !["app"] = [@ EXCEPT !.pc = "cl_join", !.ret = <<after>>]]
    /\ UNCHANGED <<ringVars, loopVars, clock, bemVars, tpVars, logVars, bdtp_, bem_responses_received_,
                   completed, call, nextResp, fault>>

\* the application calls session.close(); "app_closed" is the point in the caller
\* right after the call
Close == CloseCall("app_closed")

\* the application calls close() again, with no other call in between
CloseAgain ==
    /\ At("app", "app_closed")
    /\ running_' = FALSE
    /\ th' = [th EXCEPT !["app"] = [@ EXCEPT !.pc = "cl_join", !.ret = <<"app_reclosed">>]]
    /\ UNCHANGED <<ringVars, loopVars, clock, bemVars, tpVars, logVars, bdtp_, bem_responses_received_,
                   completed, call, nextResp, fault>>

\* the application goes on to its other calls after a close() has returned
AfterClose ==
    /\ Alive
    /\ th["app"].pc \in {"app_closed", "app_reclosed"}
    /\ th' = [th EXCEPT !["app"].pc = "app_idle"]
    /\ UNCHANGED <<ringVars, loopVars, clock, bemVars, tpVars, logVars, running_, bdtp_,
                   bem_responses_received_, completed, call, nextResp, fault>>

\* SessionImpl::~SessionImpl: close(), then bem_ is destroyed (clearPendingRequests)
Destroy == CloseCall("dtor_bem")

\* Faulty variant of the join in close: close goes on without waiting for the
\* receive thread to exit.
ClJoinNoWait ==
    /\ At("app", "cl_join")
    /\ th' = [th EXCEPT !["app"] = [@ EXCEPT !.pc = "cp_collect",
                                             !.ret = <<"cl_transport">> \o @]]
    /\ UNCHANGED <<ringVars, loopVars, clock, bemVars, tpVars, logVars, running_, bdtp_,
                   bem_responses_received_, completed, call, nextResp, fault>>

\* SessionImpl::close: if (receiveThread_.joinable()) receiveThread_.join(), which
\* returns once the loop has exited; bem_.clearPendingRequests() is next
ClJoin ==
    /\ At("app", "cl_join")
    /\ th["rx"].pc \in {"rx_none", "rx_exit"}
    /\ th' = [th EXCEPT !["rx"] = ThreadAt("rx_none"),
                        !["app"] = [@ EXCEPT !.pc = "cp_collect",
                                             !.ret = <<"cl_transport">> \o @]]
    /\ UNCHANGED <<ringVars, loopVars, clock, bemVars, tpVars, logVars, running_, bdtp_,
                   bem_responses_received_, completed, call, nextResp, fault>>

\* SessionImpl::close: if (transport_ && transport_->isOpen()) transport_->close()
ClTransport ==
    /\ At("app", "cl_transport")
    /\ tMutex = "free"
    /\ TransportCloseEffect
    /\ th' = [th EXCEPT !["app"] = Returned(@)]
    /\ UNCHANGED <<ringVars, loopVars, clock, bemVars, loopback_enabled_, tMutex, logVars, running_, bdtp_,
                   bem_responses_received_, call, nextResp>>

\* BemProtocol::~BemProtocol: clearPendingRequests()
DtorBem ==
    /\ At("app", "dtor_bem")
    /\ th' = [th EXCEPT !["app"] = [@ EXCEPT !.pc = "cp_collect", !.ret = <<"app_gone">>]]
    /\ UNCHANGED <<ringVars, loopVars, clock, bemVars, tpVars, logVars, running_, bdtp_,
                   bem_responses_received_, completed, call, nextResp, fault>>

(* ------------------------------ the system ----------------------------- *)

Next ==
    \/ Tick
    \/ \E t \in Threads : PtSweep(t)
    \/ \E t \in Threads : PtInvoke(t)
    \/ \E t \in Threads : CpCollect(t)
    \/ \E t \in Threads : CpInvoke(t)
    \/ \E t \in Threads : DlEmit(t)
    \/ \E t \in Threads : CorrCallback(t)
    \/ \E t \in Threads : DlFinish(t)
    \/ \E t \in Threads : TcpLoop(t)
    \/ TpUnlock("rx")
    \/ InjectData
    \/ SetLoopbackEnabled
    \/ TransportClose
    \/ StartReceiving
    \/ RxLoop
    \/ RxRecv
    \/ RxWait
    \/ AppProcessTimeouts
    \/ SendBemCommand
    \/ GetOperatingMode
    \/ SbcSend
    \/ Close
    \/ CloseAgain
    \/ AfterClose
    \/ Destroy
    \/ ClJoin
    \/ ClTransport
    \/ DtorBem

Spec == Init /\ [][Next]_vars

(* --------------- the session left alone with its receive loop ---------- *)

\* The steps of the receive thread and the steps that finish a call the application
\* thread is inside of.  The operating system schedules both threads, so neither
\* waits forever to take a step it can take; the clock advances on its own.
RxStep ==
    \/ RxLoop
    \/ RxRecv
    \/ RxWait
    \/ PtSweep("rx")
    \/ PtInvoke("rx")
    \/ DlEmit("rx")
    \/ DlFinish("rx")
    \/ TpUnlock("rx")

AppStep ==
    \/ SbcSend
    \/ TcpLoop("app")
    \/ DlEmit("app")
    \/ DlFinish("app")

\* The application sends commands, may start the loop and may close the transport;
\* it never calls processTimeouts or close, and the device never answers.
LiveNext ==
    \/ Tick
    \/ RxStep
    \/ AppStep
    \/ StartReceiving
    \/ SendBemCommand
    \/ GetOperatingMode
    \/ TransportClose

LiveSpec ==
    /\ Init
    /\ [][LiveNext]_vars
    /\ WF_vars(Tick)
    /\ WF_vars(RxStep)
    /\ WF_vars(AppStep)

\* The same, with an application that may also open the transport again after it
\* has been closed.
ReopenNext ==
    \/ LiveNext
    \/ TransportOpen

ReopenSpec ==
    /\ Init
    /\ [][ReopenNext]_vars
    /\ WF_vars(Tick)
    /\ WF_vars(RxStep)
    /\ WF_vars(AppStep)

(* ------------- the session in operation, timeouts of 0 and 1 ms -------- *)

\* the application's timeouts here: one that has expired as soon as the request is
\* registered, and one that expires a tick later
SweepTimeouts == {0, 1}

SweepCommands ==
    { getOperatingModeCommand,
      [bstId |-> Bem_PG_A4, bemId |-> GetSetOperatingMode, data |-> <<1, 2>>] }

SweepSend == \E command \in SweepCommands, timeout \in SweepTimeouts :
                SendBemCommandCall(command, timeout)

\* The application sends commands and calls processTimeouts while the receive loop
\* sweeps on its own; the session is not closed and the device is silent.
SweepNext ==
    \/ Tick
    \/ StartReceiving
    \/ RxLoop
    \/ RxRecv
    \/ RxWait
    \/ TpUnlock("rx")
    \/ \E t \in {"rx", "app"} : PtSweep(t)
    \/ \E t \in {"rx", "app"} : PtInvoke(t)
    \/ \E t \in {"rx", "app"} : DlEmit(t)
    \/ \E t \in {"rx", "app"} : DlFinish(t)
    \/ TcpLoop("app")
    \/ SbcSend
    \/ AppProcessTimeouts
    \/ SweepSend

SweepSpec == Init /\ [][SweepNext]_vars

(* ------- the session in operation, every command and response id ------- *)

\* commands on each of the four command ids, with two BEM ids
CorrCommands ==
    {[bstId |-> b, bemId |-> c, data |-> <<>>] :
        b \in {Bem_PG_A1, Bem_PG_A4, Bem_PG_A6, Bem_PG_A8},
        c \in {GetSetOperatingMode, SystemStatus}}

\* responses on each of the four response ids, with the two BEM ids; the sequence id
\* byte is the number of the injectData call, or that number plus 8
CorrDatagrams(n) ==
    {[bstId |-> b, data |-> ResponseBody(c, q, 0)] :
        b \in {Bem_GP_A0, Bem_GP_A2, Bem_GP_A3, Bem_GP_A5},
        c \in {GetSetOperatingMode, SystemStatus},
        q \in {n, n + 8}}

CorrSend == \E command \in CorrCommands, timeout \in Timeouts :
               SendBemCommandCall(command, timeout)

CorrInject == InjectDataOf(Encoded(CorrDatagrams(nextResp)), MaxResponses)

\* The application sends commands, the device answers, the receive loop runs; the
\* session is not closed.
CorrNext ==
    \/ Tick
    \/ StartReceiving
    \/ RxLoop
    \/ RxRecv
    \/ RxWait
    \/ TpUnlock("rx")
    \/ PtSweep("rx")
    \/ PtInvoke("rx")
    \/ \E t \in Threads : DlEmit(t)
    \/ \E t \in Threads : CorrCallback(t)
    \/ \E t \in Threads : DlFinish(t)
    \/ \E t \in Threads : TcpLoop(t)
    \/ SbcSend
    \/ CorrSend
    \/ CorrInject

CorrSpec == Init /\ [][CorrNext]_vars

(* ------------- the session receiving a stream of frames ---------------- *)

\* the q-th frame of the device's stream: an unsolicited SystemStatus message whose
\* sequence id byte is q
StreamFrame(q) ==
    encodeBst([bstId |-> Bem_GP_A0, data |-> ResponseBody(SystemStatus, q, 0)])

\* where the device cuts a frame that it sends in two injectData calls
CutAt == 6

\* What the device passes to its n-th injectData call.  Frames are numbered in the
\* order of the stream, 3n, 3n+1, 3n+2 belonging to call n: one frame; two frames;
\* a frame and the beginning of frame 3n+2; the rest of frame 3n-1 (begun, if at
\* all, by the call before) and a frame.
StreamMessages(n) ==
    { StreamFrame(3 * n),
      StreamFrame(3 * n) \o StreamFrame(3 * n + 1),
      StreamFrame(3 * n) \o SubSeq(StreamFrame(3 * n + 2), 1, CutAt),
      SubSeq(StreamFrame(3 * n - 1), CutAt + 1, Len(StreamFrame(3 * n - 1)))
         \o StreamFrame(3 * n) }

StreamInject == InjectDataOf(StreamMessages(nextResp), MaxMessages)

\* The device streams frames at a session whose receive loop the application has
\* started or starts; the application makes no other call.
StreamNext ==
    \/ StartReceiving
    \/ RxLoop
    \/ RxRecv
    \/ RxWait
    \/ TpUnlock("rx")
    \/ PtSweep("rx")
    \/ \E t \in {"rx", "dev"} : DlEmit(t)
    \/ \E t \in {"rx", "dev"} : DlFinish(t)
    \/ TcpLoop("dev")
    \/ StreamInject

StreamSpec == Init /\ [][StreamNext]_vars

\* the steps that finish an injectData call the device thread is inside of
DevStep ==
    \/ TcpLoop("dev")
    \/ DlEmit("dev")
    \/ DlFinish("dev")

\* The same, with the receive thread (once it exists) and the device thread
\* scheduled by the operating system.  Nothing obliges the application to call
\* startReceiving or the device to send.
StreamLiveSpec ==
    /\ Init
    /\ [][StreamNext]_vars
    /\ WF_vars(RxStep)
    /\ WF_vars(DevStep)

(* ------------------- the framer fed one byte at a time ------------------ *)

\* the framer as constructed, and the framer inside a frame that is one byte short
\* of the size cap (after DLE STX and kMaxFrameSize - 1 zero bytes)
FramerStarts ==
    { NewBdtp,
      [NewBdtp EXCEPT !.state_ = "InFrame",
                      !.frame_buffer_ = [i \in 1..(kMaxFrameSize - 1) |-> 0]] }

FramerInit == SessionInit /\ bdtp_ \in FramerStarts

\* the control bytes, an ordinary byte, and the bytes of the smallest valid BST
\* frame A0 00 60 (id, store length 0, checksum)
FramerBytes == {DLE, STX, ETX, 0, Bem_GP_A0, 96}

\* bdtp().parse(<<byte>>, ...): the caller's record keeps the byte it passed and what
\* the emitters were called with during this call
FramerFeed(byte) ==
    /\ nextResp <= MaxBytes
    /\ nextResp' = nextResp + 1
    /\ LET r == parse(bdtp_, <<byte>>)
       IN  /\ bdtp_' = r.p
           /\ th' = [th EXCEPT !["dev"] = [@ EXCEPT !.todo = <<byte>>, !.outs = r.out]]
    /\ UNCHANGED <<ringVars, loopVars, clock, bemVars, tpVars, logVars, running_, bem_responses_received_,
                   completed, call, fault>>

\* BdtpProtocol::reset
FramerReset ==
    /\ bdtp_' = [bdtp_ EXCEPT !.state_ = "Idle", !.frame_buffer_ = <<>>]
    /\ th' = [th EXCEPT !["dev"] = [@ EXCEPT !.todo = <<>>, !.outs = <<>>]]
    /\ UNCHANGED <<ringVars, loopVars, clock, bemVars, tpVars, logVars, running_, bem_responses_received_,
                   completed, call, nextResp, fault>>

FramerNext ==
    \/ \E byte \in FramerBytes : FramerFeed(byte)
    \/ FramerReset

FramerSpec == FramerInit /\ [][FramerNext]_vars

(* ------------------ encodeBst followed by the framer -------------------- *)

\* sequences over S of length n
SeqsOf(S, n) == [1..n -> S]

\* BST ids: the control bytes, 0, a BEM response id, an id whose empty datagram has
\* checksum 0x10, and the largest
RtIds == {0, STX, ETX, DLE, Bem_GP_A0, 240, 255}

\* bodies: every mix of the control bytes and an ordinary byte up to three bytes,
\* and bodies of the largest length 255 made of one of these bytes
RtBodies ==
    UNION {SeqsOf({DLE, STX, ETX, 85}, n) : n \in 0..3}
    \cup {[i \in 1..255 |-> b] : b \in {DLE, STX, ETX, 85}}

RtDatagrams ==
    {[bstId |-> id, storeLength |-> Len(body), data |-> body] :
        id \in RtIds, body \in RtBodies}

\* BdtpProtocol::encodeBst(datagram, frame): the caller keeps the datagram and the frame
RtEncode(datagram) ==
    /\ nextResp <= MaxMessages
    /\ th["dev"].todo = <<>>
    /\ th' = [th EXCEPT !["dev"] = [@ EXCEPT !.held = <<datagram>>,
                                             !.todo = encodeBst(datagram),
                                             !.outs = <<>>]]
    /\ UNCHANGED <<ringVars, loopVars, clock, bemVars, tpVars, logVars, running_, bdtp_,
                   bem_responses_received_, completed, call, nextResp, fault>>

\* bdtp().parse(frame, ...): the caller keeps what the emitters were called with
RtParse ==
    /\ th["dev"].todo # <<>>
    /\ nextResp' = nextResp + 1
    /\ LET r == parse(bdtp_, th["dev"].todo)
       IN  /\ bdtp_' = r.p
           /\ th' = [th EXCEPT !["dev"] = [@ EXCEPT !.todo = <<>>, !.outs = r.out]]
    /\ UNCHANGED <<ringVars, loopVars, clock, bemVars, tpVars, logVars, running_, bem_responses_received_,
                   completed, call, fault>>

RtNext ==
    \/ \E datagram \in RtDatagrams : RtEncode(datagram)
    \/ RtParse

RoundTripSpec == Init /\ [][RtNext]_vars

(* ------------------- a byte stream fed in chunks ------------------------ *)

\* the control bytes and the byte of the valid frame 00 00 00
ChunkBytes == {DLE, STX, ETX, 0}

\* the data arguments of a parse call that keep the stream within MaxStream bytes
Chunks(fed) == UNION {SeqsOf(ChunkBytes, n) : n \in 1..(MaxStream - fed)}

\* bdtp().parse(chunk, ...): the caller keeps all bytes it has passed so far and
\* everything the emitters were called with, in order
ChFeed(chunk) ==
    /\ nextResp' = nextResp + 1
    /\ LET r == parse(bdtp_, chunk)
       IN  /\ bdtp_' = r.p
           /\ th' = [th EXCEPT !["dev"] = [@ EXCEPT !.todo = @ \o chunk,
                                                    !.outs = @ \o r.out]]
    /\ UNCHANGED <<ringVars, loopVars, clock, bemVars, tpVars, logVars, running_, bem_responses_received_,
                   completed, call, fault>>

ChunkNext == \E chunk \in Chunks(Len(th["dev"].todo)) : ChFeed(chunk)

ChunkSpec == Init /\ [][ChunkNext]_vars

(* ----------------- damaged frames followed by valid ones ---------------- *)

\* datagrams of the tests: id 0xCC without body, id 0x94 with body 42, and one whose
\* id and body need escaping
RecDatagrams ==
    { [bstId |-> 204, storeLength |-> 0, data |-> <<>>],
      [bstId |-> 148, storeLength |-> 1, data |-> <<66>>],
      [bstId |-> DLE, storeLength |-> 2, data |-> <<DLE, STX>>] }

ValidFrames == {encodeBst(d) : d \in RecDatagrams}

\* a frame that was started and not finished: 10 02 AA BB
PartialFrame == <<DLE, STX, 170, 187>>

\* the input 10 02 AA BB 10 02 <valid frame of id 0xCC> 10 03
AbortExample == PartialFrame \o encodeBst([bstId |-> 204, storeLength |-> 0, data |-> <<>>])

\* frames one byte longer than the cap, the second with 10 10 02 in what follows
\* the byte that overflows
OversizeFrames ==
    { <<DLE, STX>> \o [i \in 1..(kMaxFrameSize + 1) |-> 0] \o <<DLE, ETX>>,
      <<DLE, STX>> \o [i \in 1..(kMaxFrameSize + 1) |-> 0]
                   \o <<DLE, DLE, STX, 0, DLE, ETX>> }

\* frames the framer drops: bad checksum, too short, invalid escape, oversize
DamagedFrames ==
    { encodeFrame(<<147, 2, 170, 187, 255>>),
      encodeFrame(<<153>>),
      <<DLE, STX, 170, DLE, 85>> } \cup OversizeFrames

\* what a parse call is handed: a valid frame, a damaged one, a frame that is cut
\* off, the example input, or a byte between frames
Segments == ValidFrames \cup DamagedFrames \cup {PartialFrame, AbortExample, <<85>>}

\* bdtp().parse(segment, ...): the caller keeps the bytes it passed and what the
\* emitters were called with during this call
RecFeed(segment) ==
    /\ nextResp <= MaxSegments
    /\ nextResp' = nextResp + 1
    /\ LET r == parse(bdtp_, segment)
       IN  /\ bdtp_' = r.p
           /\ th' = [th EXCEPT !["dev"] = [@ EXCEPT !.todo = segment, !.outs = r.out]]
    /\ UNCHANGED <<ringVars, loopVars, clock, bemVars, tpVars, logVars, running_, bem_responses_received_,
                   completed, call, fault>>

RecoveryNext == \E segment \in Segments : RecFeed(segment)

RecoverySpec == Init /\ [][RecoveryNext]_vars

(* --------------------- the byte ring, call by call ---------------------- *)

sessionVars == <<clock, bemVars, tpVars, logVars, running_, bdtp_,
                 bem_responses_received_, completed, th, call, nextResp, fault, loopVars>>

\* a span of n bytes handed to write after head bytes have been accepted: the bytes
\* are numbered by their place in the stream of accepted bytes, so that every byte
\* of the stream is told from every other
RingSpan(head, n) == [i \in 1..n |-> (head + i) % 256]

\* what a FIFO queue bounded by Capacity takes of data
Accepts(queue, data) == SubSeq(data, 1, Min(Len(data), Capacity - Len(queue)))

\* the oldest bytes of a FIFO queue, at most size of them
Oldest(queue, size) == SubSeq(queue, 1, Min(size, Len(queue)))

\* ring.write(data)
RbWrite(data) ==
    /\ head_ < MaxHead
    /\ LET r == write(head_, tail_, buffer_, data)
           taken == Accepts(ringLog.queue, data)
       IN  /\ head_' = r.head /\ tail_' = r.tail /\ buffer_' = r.buf
           /\ ringLog' = [ringLog EXCEPT
                             !.queue = @ \o taken,
                             !.last = [op |-> "write", ret |-> r.ret, expect |-> Len(taken)]]
    /\ UNCHANGED <<sessionVars, producer, consumer>>

\* ring.read(span of size bytes)
RbRead(size) ==
    /\ LET r == read(head_, tail_, buffer_, size)
           oldest == Oldest(ringLog.queue, size)
       IN  /\ head_' = r.head /\ tail_' = r.tail /\ buffer_' = r.buf
           /\ ringLog' = [ringLog EXCEPT
                             !.queue = SubSeq(@, Len(oldest) + 1, Len(@)),
                             !.last = [op |-> "read", ret |-> r.ret, expect |-> oldest]]
    /\ UNCHANGED <<sessionVars, producer, consumer>>

\* ring.peek(span of size bytes)
RbPeek(size) ==
    /\ ringLog' = [ringLog EXCEPT
                      !.last = [op |-> "peek", ret |-> peek(head_, tail_, buffer_, size),
                                expect |-> Oldest(ringLog.queue, size)]]
    /\ UNCHANGED <<sessionVars, head_, tail_, buffer_, producer, consumer>>

\* ring.clear()
RbClear ==
    /\ LET r == clear(head_, tail_, buffer_)
       IN  head_' = r.head /\ tail_' = r.tail /\ buffer_' = r.buf
    /\ ringLog' = [ringLog EXCEPT !.queue = <<>>,
                                  !.last = [op |-> "clear", ret |-> 0, expect |-> 0]]
    /\ UNCHANGED <<sessionVars, producer, consumer>>

RingNext ==
    \/ \E n \in 0..MaxSpan : RbWrite(RingSpan(head_, n))
    \/ \E size \in 0..MaxSpan : RbRead(size)
    \/ \E size \in 0..MaxSpan : RbPeek(size)
    \/ RbClear

RingSpec == Init /\ [][RingNext]_vars

(* ------------- the byte ring, one producer and one consumer ------------- *)

\* write(data) is entered
PCall(n) ==
    /\ producer.pc = "idle"
    /\ head_ < MaxHead
    /\ producer' = [RingIdle EXCEPT !.pc = "w_head",
                                    !.data = RingSpan(head_, n)]
    /\ UNCHANGED <<sessionVars, head_, tail_, buffer_, consumer, ringLog>>

\* write: head_.load(relaxed)
PLoadHead ==
    /\ producer.pc = "w_head"
    /\ producer' = [producer EXCEPT !.pc = "w_tail", !.head = head_]
    /\ UNCHANGED <<sessionVars, head_, tail_, buffer_, consumer, ringLog>>

\* write: tail_.load(acquire), toWrite, and the return of 0 when there is no room
PLoadTail ==
    /\ producer.pc = "w_tail"
    /\ LET toWrite == Min(Len(producer.data), availableSpace(producer.head, tail_))
       IN  producer' = IF toWrite = 0 THEN RingIdle
                       ELSE [producer EXCEPT !.pc = "w_copy", !.tail = tail_,
                                             !.count = toWrite, !.i = 0]
    /\ UNCHANGED <<sessionVars, head_, tail_, buffer_, consumer, ringLog>>

\* write: one byte of the two std::copy_n
PCopy ==
    /\ producer.pc = "w_copy"
    /\ buffer_' = [buffer_ EXCEPT ![SlotOf(producer.head, producer.count, producer.i)] =
                                    producer.data[producer.i + 1]]
    /\ producer' = [producer EXCEPT !.i = @ + 1,
                                    !.pc = IF producer.i + 1 = producer.count
                                           THEN "w_store" ELSE "w_copy"]
    /\ UNCHANGED <<sessionVars, head_, tail_, consumer, ringLog>>

\* write: head_.store(head + toWrite, release) and the return
PStore ==
    /\ producer.pc = "w_store"
    /\ head_' = producer.head + producer.count
    /\ producer' = RingIdle
    /\ UNCHANGED <<sessionVars, tail_, buffer_, consumer, ringLog>>

\* read(span of size bytes) is entered
CCall(size) ==
    /\ consumer.pc = "idle"
    /\ consumer' = [RingIdle EXCEPT !.pc = "r_head", !.size = size]
    /\ UNCHANGED <<sessionVars, head_, tail_, buffer_, producer, ringLog>>

\* read: head_.load(acquire)
CLoadHead ==
    /\ consumer.pc = "r_head"
    /\ consumer' = [consumer EXCEPT !.pc = "r_tail", !.head = head_]
    /\ UNCHANGED <<sessionVars, head_, tail_, buffer_, producer, ringLog>>

\* read: tail_.load(relaxed), toRead, and the return of 0 when there is nothing
CLoadTail ==
    /\ consumer.pc = "r_tail"
    /\ LET toRead == Min(consumer.size, consumer.head - tail_)
       IN  consumer' = IF toRead = 0 THEN RingIdle
                       ELSE [consumer EXCEPT !.pc = "r_copy", !.tail = tail_,
                                             !.count = toRead, !.i = 0]
    /\ UNCHANGED <<sessionVars, head_, tail_, buffer_, producer, ringLog>>

\* read: one byte of the two std::copy_n
CCopy ==
    /\ consumer.pc = "r_copy"
    /\ consumer' = [consumer EXCEPT
                       !.out = Append(@, buffer_[SlotOf(consumer.tail, consumer.count,
                                                        consumer.i)]),
                       !.i = @ + 1,
                       !.pc = IF consumer.i + 1 = consumer.count THEN "r_store"
                              ELSE "r_copy"]
    /\ UNCHANGED <<sessionVars, head_, tail_, buffer_, producer, ringLog>>

\* read: tail_.store(tail + toRead, release) and the return of the bytes
CStore ==
    /\ consumer.pc = "r_store"
    /\ tail_' = consumer.tail + consumer.count
    /\ ringLog' = [ringLog EXCEPT !.delivered = @ \o consumer.out]
    /\ consumer' = RingIdle
    /\ UNCHANGED <<sessionVars, head_, buffer_, producer>>

RingConcNext ==
    \/ \E n \in 1..MaxSpan : PCall(n)
    \/ PLoadHead
    \/ PLoadTail
    \/ PCopy
    \/ PStore
    \/ \E size \in 1..MaxSpan : CCall(size)
    \/ CLoadHead
    \/ CLoadTail
    \/ CCopy
    \/ CStore

RingConcSpec == Init /\ [][RingConcNext]_vars

(* ------------------- the message buffer, call by call ------------------- *)

\* the k-th message offered: one or two bytes, the first of which is k, so that
\* every message is told from every other
MessagesNumbered(k) == {<<k>>, <<k, 0>>}

\* the accepted messages that were not discarded by clear, in order of acceptance
Kept == LET kept == SelectSeq(lbLog.accepted, LAMBDA a : ~a.cleared)
        IN  [i \in 1..Len(kept) |-> kept[i].data]

\* the messages handed out so far, in the order they were handed out
Handed == [i \in 1..Len(lbLog.delivered) |-> lbLog.delivered[i].data]

\* the log after the messages in stored have been discarded
Discarding(stored) ==
    [i \in 1..Len(lbLog.accepted) |->
        [lbLog.accepted[i] EXCEPT
            !.cleared = @ \/ (\E j \in 1..Len(stored) : stored[j] = lbLog.accepted[i].data)]]

\* MessageRingBuffer constructed with any capacity from 0 on
MrInit ==
    /\ \E max \in 0..MaxMessages : SessionOver(FALSE, max)
    /\ bdtp_ = NewBdtp

\* MessageRingBuffer::enqueue(std::span<const uint8_t>)
MrEnqueue(data) ==
    /\ Len(lbLog.accepted) < MaxAccepted
    /\ LET r == enqueue(messageBuffer_, maxMessages_, data)
       IN  /\ messageBuffer_' = r.messages
           /\ lbLog' = [lbLog EXCEPT
                  !.accepted = IF r.ok THEN Append(@, [data |-> data, cleared |-> FALSE])
                               ELSE @,
                  !.last = [op |-> "enqueue", ok |-> r.ok, before |-> messageBuffer_,
                            message |-> data]]
    /\ UNCHANGED <<ringVars, clock, bemVars, is_open_, loopback_enabled_, pending_recvs_,
                   tMutex, logVars, running_, bdtp_, bem_responses_received_, completed,
                   th, call, nextResp, fault, maxMessages_, total_bytes_sent_>>

\* MessageRingBuffer::dequeue
MrDequeue ==
    /\ LET r == dequeue(messageBuffer_)
       IN  /\ messageBuffer_' = r.messages
           /\ lbLog' = [lbLog EXCEPT
                  !.delivered = IF r.has_value THEN Append(@, [recv |-> 0, data |-> r.message])
                                ELSE @,
                  !.last = [op |-> "dequeue", ok |-> r.has_value, before |-> messageBuffer_,
                            message |-> r.message]]
    /\ UNCHANGED <<ringVars, clock, bemVars, is_open_, loopback_enabled_, pending_recvs_,
                   tMutex, logVars, running_, bdtp_, bem_responses_received_, completed,
                   th, call, nextResp, fault, maxMessages_, total_bytes_sent_>>

\* MessageRingBuffer::clear
MrClear ==
    /\ messageBuffer_' = <<>>
    /\ lbLog' = [lbLog EXCEPT !.accepted = Discarding(messageBuffer_),
                              !.last = [op |-> "clear", ok |-> TRUE,
                                        before |-> messageBuffer_, message |-> <<>>]]
    /\ UNCHANGED <<ringVars, clock, bemVars, is_open_, loopback_enabled_, pending_recvs_,
                   tMutex, logVars, running_, bdtp_, bem_responses_received_, completed,
                   th, call, nextResp, fault, maxMessages_, total_bytes_sent_>>

MsgRingNext ==
    \/ \E data \in MessagesNumbered(Len(lbLog.accepted) + 1) : MrEnqueue(data)
    \/ MrDequeue
    \/ MrClear

MsgRingSpec == MrInit /\ [][MsgRingNext]_vars

(* ---------------- the loopback transport, call by call ------------------ *)

\* the k-th message handed to the transport: one byte when k is odd, two when even,
\* the first of which is k
MessageNumbered(k) == IF k % 2 = 1 THEN <<k>> ELSE <<k, 0>>

\* the transport's members; every public call is one critical section of mutex_
Tp == [is_open_ |-> is_open_, loopback_enabled_ |-> loopback_enabled_,
       messageBuffer_ |-> messageBuffer_, pending_recvs_ |-> pending_recvs_,
       maxMessages_ |-> maxMessages_, total_bytes_sent_ |-> total_bytes_sent_]

\* LoopbackTransport::tryCompletePendingRecvs: while a receive is pending and
\* dequeue yields a message, complete the oldest pending receive with it.
\* done lists the completions invoked, in order.
RECURSIVE tryCompletePendingRecvs(_, _)
tryCompletePendingRecvs(tp, done) ==
    IF tp.pending_recvs_ = <<>> THEN [tp |-> tp, done |-> done]
    ELSE LET message == dequeue(tp.messageBuffer_)
         IN  IF ~message.has_value THEN [tp |-> tp, done |-> done]
             ELSE tryCompletePendingRecvs(
                     [tp EXCEPT !.messageBuffer_ = message.messages,
                                !.pending_recvs_ = Tail(@)],
                     Append(done, [recv |-> Head(tp.pending_recvs_), code |-> "Ok",
                                   data |-> message.message]))

\* Faulty variant of asyncSend: a refused message is counted in the bytes sent.
asyncSendCountsRefused(tp, data) ==
    IF ~tp.is_open_ THEN [tp |-> tp, code |-> "NotConnected", written |-> 0, done |-> <<>>]
    ELSE IF ~tp.loopback_enabled_
    THEN [tp |-> [tp EXCEPT !.total_bytes_sent_ = @ + Len(data)],
          code |-> "Ok", written |-> Len(data), done |-> <<>>]
    ELSE LET e == enqueue(tp.messageBuffer_, tp.maxMessages_, data)
         IN  IF ~e.ok
             THEN [tp |-> [tp EXCEPT !.total_bytes_sent_ = @ + Len(data)],
                   code |-> "RateLimited", written |-> 0, done |-> <<>>]
             ELSE LET r == tryCompletePendingRecvs(
                              [tp EXCEPT !.messageBuffer_ = e.messages], <<>>)
                  IN  [tp |-> [r.tp EXCEPT !.total_bytes_sent_ = @ + Len(data)],
                       code |-> "Ok", written |-> Len(data), done |-> r.done]

\* LoopbackTransport::asyncSend: the members afterwards, what the send completion
\* is given, and the receive completions invoked on the way
asyncSend(tp, data) ==
    IF ~tp.is_open_ THEN [tp |-> tp, code |-> "NotConnected", written |-> 0, done |-> <<>>]
    ELSE IF ~tp.loopback_enabled_
    THEN [tp |-> [tp EXCEPT !.total_bytes_sent_ = @ + Len(data)],
          code |-> "Ok", written |-> Len(data), done |-> <<>>]
    ELSE LET e == enqueue(tp.messageBuffer_, tp.maxMessages_, data)
         IN  IF ~e.ok
             THEN [tp |-> tp, code |-> "RateLimited", written |-> 0, done |-> <<>>]
             ELSE LET r == tryCompletePendingRecvs(
                              [tp EXCEPT !.messageBuffer_ = e.messages], <<>>)
                  IN  [tp |-> [r.tp EXCEPT !.total_bytes_sent_ = @ + Len(data)],
                       code |-> "Ok", written |-> Len(data), done |-> r.done]

\* LoopbackTransport::injectData: the members afterwards, the count returned and the
\* receive completions invoked on the way
injectData(tp, data) ==
    IF ~tp.is_open_ THEN [tp |-> tp, code |-> "closed", written |-> 0, done |-> <<>>]
    ELSE LET e == enqueue(tp.messageBuffer_, tp.maxMessages_, data)
         IN  IF ~e.ok THEN [tp |-> tp, code |-> "full", written |-> 0, done |-> <<>>]
             ELSE LET r == tryCompletePendingRecvs(
                              [tp EXCEPT !.messageBuffer_ = e.messages], <<>>)
                  IN  [tp |-> r.tp, code |-> "stored", written |-> Len(data),
                       done |-> r.done]

\* LoopbackTransport::asyncRecv of the completion numbered recv
asyncRecv(tp, recv) ==
    IF ~tp.is_open_
    THEN [tp |-> tp, done |-> <<[recv |-> recv, code |-> "NotConnected", data |-> <<>>]>>]
    ELSE LET message == dequeue(tp.messageBuffer_)
         IN  IF message.has_value
             THEN [tp |-> [tp EXCEPT !.messageBuffer_ = message.messages],
                   done |-> <<[recv |-> recv, code |-> "Ok", data |-> message.message]>>]
             ELSE [tp |-> [tp EXCEPT !.pending_recvs_ = Append(@, recv)], done |-> <<>>]

\* Faulty variant of close: the pending receives are dropped without being completed.
closeForgetsPending(tp) ==
    IF ~tp.is_open_ THEN [tp |-> tp, done |-> <<>>]
    ELSE [tp |-> [tp EXCEPT !.is_open_ = FALSE, !.pending_recvs_ = <<>>,
                            !.messageBuffer_ = <<>>],
          done |-> <<>>]

\* LoopbackTransport::close: every pending receive is completed with Canceled, oldest
\* first, and the stored messages are discarded
close(tp) ==
    IF ~tp.is_open_ THEN [tp |-> tp, done |-> <<>>]
    ELSE [tp |-> [tp EXCEPT !.is_open_ = FALSE, !.pending_recvs_ = <<>>,
                            !.messageBuffer_ = <<>>],
          done |-> [i \in 1..Len(tp.pending_recvs_) |->
                       [recv |-> tp.pending_recvs_[i], code |-> "Canceled", data |-> <<>>]]]

\* LoopbackTransport::asyncOpen
asyncOpen(tp) ==
    IF tp.is_open_ THEN [tp |-> tp, code |-> "AlreadyConnected"]
    ELSE [tp |-> [tp EXCEPT !.is_open_ = TRUE, !.total_bytes_sent_ = 0,
                            !.messageBuffer_ = <<>>],
          code |-> "Ok"]

\* the members become those of tp
Becomes(tp) ==
    /\ is_open_' = tp.is_open_
    /\ loopback_enabled_' = tp.loopback_enabled_
    /\ messageBuffer_' = tp.messageBuffer_
    /\ pending_recvs_' = tp.pending_recvs_
    /\ total_bytes_sent_' = tp.total_bytes_sent_
    /\ UNCHANGED <<ringVars, clock, bemVars, tMutex, logVars, running_, bdtp_,
                   bem_responses_received_, completed, th, call, nextResp, fault,
                   maxMessages_>>

\* the receive log after the completions in done have been invoked
RECURSIVE Completing(_, _)
Completing(recvs, done) ==
    IF done = <<>> THEN recvs
    ELSE Completing([recvs EXCEPT ![Head(done).recv].invocations =
                        Append(@, [code |-> Head(done).code, data |-> Head(done).data])],
                    Tail(done))

\* the delivery log after the completions in done have been invoked
Delivering(delivered, done) ==
    delivered \o SelectSeq([i \in 1..Len(done) |-> [recv |-> done[i].recv,
                                                    data |-> done[i].data]],
                           LAMBDA d : \E i \in 1..Len(done) :
                                         /\ done[i].recv = d.recv
                                         /\ done[i].code = "Ok")

\* the transport as constructed (closed), its capacity being kMaxPendingMessages
LbInit ==
    /\ \E max \in {MaxPendingMessages, MaxPendingMessages + 1} : SessionOver(FALSE, max)
    /\ bdtp_ = NewBdtp

LbOpen ==
    LET r == asyncOpen(Tp)
    IN  /\ Becomes(r.tp)
        /\ UNCHANGED lbLog

LbClose ==
    LET r == close(Tp)
    IN  /\ Becomes(r.tp)
        /\ lbLog' = [lbLog EXCEPT !.recvs = Completing(@, r.done),
                                  !.accepted = Discarding(messageBuffer_)]

LbSend(data) ==
    /\ lbLog.sends < MaxSends
    /\ LET r == asyncSend(Tp, data)
           stored == r.code = "Ok" /\ loopback_enabled_
       IN  /\ Becomes(r.tp)
           /\ lbLog' = [lbLog EXCEPT
                  !.sends = @ + 1,
                  !.sent = <<[data |-> data, code |-> r.code, written |-> r.written]>>,
                  !.accepted = IF stored THEN Append(@, [data |-> data, cleared |-> FALSE])
                               ELSE @,
                  !.recvs = Completing(@, r.done),
                  !.delivered = Delivering(@, r.done)]

LbInject(data) ==
    /\ lbLog.sends < MaxSends
    /\ LET r == injectData(Tp, data)
       IN  /\ Becomes(r.tp)
           /\ lbLog' = [lbLog EXCEPT
                  !.sends = @ + 1,
                  !.accepted = IF r.code = "stored"
                               THEN Append(@, [data |-> data, cleared |-> FALSE]) ELSE @,
                  !.recvs = Completing(@, r.done),
                  !.delivered = Delivering(@, r.done)]

LbRecv ==
    /\ Len(lbLog.recvs) < MaxRecvs
    /\ LET recv == Len(lbLog.recvs) + 1
           r == asyncRecv(Tp, recv)
       IN  /\ Becomes(r.tp)
           /\ lbLog' = [lbLog EXCEPT
                  !.recvs = Completing(Append(@, [invocations |-> <<>>,
                                                  open |-> is_open_,
                                                  stored |-> Len(messageBuffer_),
                                                  atOnce |-> Len(r.done)]), r.done),
                  !.delivered = Delivering(@, r.done)]

\* LoopbackTransport::clearBuffers
LbClearBuffers ==
    /\ Becomes([Tp EXCEPT !.messageBuffer_ = <<>>])
    /\ lbLog' = [lbLog EXCEPT !.accepted = Discarding(messageBuffer_)]

\* LoopbackTransport::setLoopbackEnabled
LbSetLoopbackEnabled ==
    /\ Becomes([Tp EXCEPT !.loopback_enabled_ = ~@])
    /\ UNCHANGED lbLog

LoopNext ==
    \/ LbOpen
    \/ LbClose
    \/ LbSend(MessageNumbered(lbLog.sends + 1))
    \/ LbInject(MessageNumbered(lbLog.sends + 1))
    \/ LbRecv
    \/ LbClearBuffers
    \/ LbSetLoopbackEnabled

LoopSpec == LbInit /\ [][LoopNext]_vars

(* ----------------------- encode94 followed by decode94 ------------------ *)

\* payload lengths: none, short, the longest whose store length fits a byte, the
\* lengths from there to the longest encode94 accepts, and one more
B94Lengths == {0, 1, 8, 249, 250, 255, 256}

\* BST-94 frames to transmit: priorities 0 to 7, a PDU1 PGN (59904) and PDU2 PGNs
\* (61444 and 129025, the latter on data page 1), a unicast and the broadcast
\* destination, payload byte i holding i mod 256
B94Frames ==
    {[priority |-> pr, pgn |-> pgn, destination |-> dest, data |-> [i \in 1..n |-> i % 256]] :
        pr \in {0, 3, 7}, pgn \in {59904, 61444, 129025}, dest \in {35, 255},
        n \in B94Lengths}

\* BstEncoder::encode94(frame, outData, outError): the caller keeps the frame and
\* the result
B94Encode(frame) ==
    /\ nextResp <= MaxMessages
    /\ th["dev"].todo = <<>>
    /\ th' = [th EXCEPT !["dev"] = [@ EXCEPT !.held = <<frame>>,
                                             !.todo = <<encode94(frame)>>,
                                             !.outs = <<>>]]
    /\ UNCHANGED <<ringVars, loopVars, clock, bemVars, tpVars, logVars, running_, bdtp_,
                   bem_responses_received_, completed, call, nextResp, fault>>

\* BstDecoder::decode94(outData, error) on what encode94 produced; a refused frame
\* has nothing to decode
B94Decode ==
    /\ th["dev"].todo # <<>>
    /\ nextResp' = nextResp + 1
    /\ LET encoded == th["dev"].todo[1]
       IN  th' = [th EXCEPT !["dev"] =
                     [@ EXCEPT !.todo = <<>>,
                               !.outs = IF encoded.ok
                                        THEN <<encoded, decode94(encoded.outData)>>
                                        ELSE <<encoded>>]]
    /\ UNCHANGED <<ringVars, loopVars, clock, bemVars, tpVars, logVars, running_, bdtp_,
                   bem_responses_received_, completed, call, fault>>

Bst94Next ==
    \/ \E frame \in B94Frames : B94Encode(frame)
    \/ B94Decode

Bst94Spec == Init /\ [][Bst94Next]_vars

(* ------------------ the session receiving BST-D0 frames ----------------- *)

\* payloads of the BST-D0 messages the device sends
D0Payloads == {<<>>, <<1>>, <<1, 2, 3, 4, 5, 6, 7, 8>>}

\* the BST-D0 messages of the device's n-th injectData call: a received single
\* packet of PGN 129025 from source 35, timestamp n
D0Frames(n) ==
    {[bstId |-> Nmea2000_D0, priority |-> 2, pgn |-> 129025, source |-> 35,
      destination |-> 255, timestamp |-> n, messageType |-> 0, direction |-> 0,
      internalSource |-> FALSE, fastPacketSeqId |-> 0, data |-> data] :
        data \in D0Payloads}

\* the body of a D0 record: the 10-byte header and the payload, which is what
\* encodeD0 writes after the id and the two length bytes
D0Body(frame) == LET raw == encodeD0(frame).outData IN SubSeq(raw, 4, Len(raw))

\* the datagrams the framer hands to the session for these messages
D0Datagrams(n) ==
    {[bstId |-> Nmea2000_D0, storeLength |-> Len(D0Body(f)), data |-> D0Body(f)] :
        f \in D0Frames(n)}

D0Inject == InjectDataOf(Encoded(D0Datagrams(nextResp)), MaxMessages)

\* The device sends BST-D0 frames at a session whose receive loop the application
\* has started or starts; the application makes no other call.
D0Next ==
    \/ StartReceiving
    \/ RxLoop
    \/ RxRecv
    \/ RxWait
    \/ TpUnlock("rx")
    \/ PtSweep("rx")
    \/ \E t \in {"rx", "dev"} : DlEmit(t)
    \/ \E t \in {"rx", "dev"} : DlFinish(t)
    \/ TcpLoop("dev")
    \/ D0Inject

D0Spec == Init /\ [][D0Next]_vars

(* ------------------ truncated frames followed by valid ones ------------- *)

\* what a truncated transmission leaves in the stream: a lone DLE, a frame that
\* stops inside its body, and one that stops right after a DLE of its body
TruncatedFrames == {<<DLE>>, PartialFrame, PartialFrame \o <<DLE>>}

\* what a parse call is handed: a valid frame, a truncated one, or a byte between
\* frames
ResyncSegments == ValidFrames \cup TruncatedFrames \cup {<<85>>}

ResyncNext == \E segment \in ResyncSegments : RecFeed(segment)

ResyncSpec == Init /\ [][ResyncNext]_vars

(* ------------------------------ properties ----------------------------- *)

Range(seq) == {seq[i] : i \in 1..Len(seq)}

Made == 1..Len(requests)

\* request r's entry is in the pending table
InTable(r) == \E k \in DOMAIN pending_requests_ : pending_requests_[k].callback = r

\* request r's completion has been moved out of the table by a thread that is about
\* to invoke it
InFlight(r) ==
    \E t \in Threads : \/ r \in Range(th[t].todo)
                       \/ th[t].held # <<>> /\ Head(th[t].held).callback = r

\* a later registration used the key of request r
Overwritten(r) ==
    \E q \in Made : q > r /\ requests[q].registered /\ requests[q].key = requests[r].key

TimeoutInvocation == [code |-> "Timeout", response |-> <<>>, locked |-> FALSE]
CanceledInvocation == [code |-> "Canceled", response |-> <<>>, locked |-> FALSE]
InvalidArgumentInvocation == [code |-> "InvalidArgument", response |-> <<>>, locked |-> FALSE]

\* C1: once the session and its BEM engine have been shut down (close, then the
\* engine's destructor), every completion that was passed to registerRequest has
\* been invoked exactly once.
C1_ExactlyOnceByShutdown ==
    th["app"].pc = "app_gone" =>
        \A r \in Made : requests[r].registered => Len(completions[r]) = 1

\* C2: no completion is ever invoked by a thread that holds the pending table's
\* mutex.
C2_NeverInvokedUnderLock ==
    \A r \in 1..MaxRequests : \A i \in 1..Len(completions[r]) : ~completions[r][i].locked

\* the completion invocations that carried response number n
CompletionSinks(n) ==
    {p \in UNION {{<<r, i>> : i \in 1..Len(completions[r])} : r \in 1..MaxRequests} :
        /\ completions[p[1]][p[2]].response # <<>>
        /\ completions[p[1]][p[2]].response[1].header.sequenceId = n}

\* the unsolicited "bem" events that carried response number n
EventSinks(n) ==
    {i \in 1..Len(events) : /\ events[i].protocol = "bem"
                            /\ events[i].payload.header.sequenceId = n}

\* the threads that have correlated a response and are about to invoke the completion
Correlating == {t \in Threads : th[t].pc = "corr_cb"}

\* C3: every decoded BEM response the session has handled went to exactly one sink,
\* a pending request's completion or an unsolicited "bem" event, never to both and
\* never to none (a response whose completion call is in progress is counted apart).
C3_ExactlyOneSink ==
    /\ \A n \in 1..MaxResponses :
          Cardinality(CompletionSinks(n)) + Cardinality(EventSinks(n)) <= 1
    /\ Cardinality(UNION {CompletionSinks(n) : n \in 1..MaxResponses})
         + Cardinality(UNION {EventSinks(n) : n \in 1..MaxResponses})
         + Cardinality(Correlating) = bem_responses_received_

\* a response was handled while a request with its key was pending, and went to that
\* request's completion
C3_Witness ==
    /\ bem_responses_received_ = 1
    /\ events = <<>>
    /\ \E r \in Made : Cardinality(CompletionSinks(1)) = 1 /\ Len(completions[r]) = 1
                       /\ completions[r][1].response # <<>>

\* C4: under every interleaving no completion is invoked more than once, and each
\* invocation is one whole outcome: a response with Ok or UnsupportedOperation, or
\* no response with Timeout, Canceled or InvalidArgument.
C4_AtMostOnce ==
    \A r \in 1..MaxRequests :
        /\ Len(completions[r]) <= 1
        /\ \A i \in 1..Len(completions[r]) :
              LET c == completions[r][i]
              IN  IF c.response # <<>>
                  THEN c.code \in {"Ok", "UnsupportedOperation"}
                  ELSE c.code \in {"Timeout", "Canceled", "InvalidArgument"}

\* the race: one thread has correlated request r's response and holds the table,
\* while another has entered processTimeouts with a clock reading at which r expired
C4_Witness ==
    \E r \in Made : \E t, u \in Threads :
        /\ t # u
        /\ th[t].pc = "corr_cb" /\ Head(th[t].held).callback = r
        /\ th[u].pc = "pt_sweep"
        /\ requests[r].registered
        /\ th[u].now - requests[r].sentAt >= requests[r].timeout

\* C5: the transport never holds more than one receive of the session whose
\* completion has not been invoked.
C5_AtMostOneReceive == Len(pending_recvs_) <= 1

\* the loop has completed one receive and has submitted the next
C5_Witness ==
    /\ bdtp_.frames_received_ >= 1
    /\ pending_recvs_ = <<"live">>
    /\ th["rx"].pc = "rx_wait"

\* request r completed with (nullopt, Timeout), once
TimedOut(r) == completions[r] = <<TimeoutInvocation>>

\* C6: with the receive loop running over an open transport, a registered request
\* that gets no response is eventually completed exactly once with (nullopt, Timeout)
\* (or the transport has been closed under the loop).
C6_EventuallyTimeout ==
    \A r \in 1..MaxRequests :
        [](((r \in Made) /\ requests[r].registered /\ running_ /\ is_open_)
              => <>(TimedOut(r) \/ ~is_open_))

\* the send of request r's frame failed
SendFailed(r) == r \in Made /\ requests[r].sendCode \notin {"none", "Ok"}

\* C7: a request whose send failed later completes with Timeout (unless a later
\* registration took its key).
C7_SendFailureThenTimeout ==
    \A r \in 1..MaxRequests : [](SendFailed(r) => <>(TimedOut(r) \/ Overwritten(r)))

\* C8: from the moment sendBemCommand hands the frame to the transport, the request
\* has been registered: its entry is in the table to be found by a response, unless
\* it has already been completed, is being completed, or gave its key to a later
\* registration.
C8_RegisteredBeforeSend ==
    \A r \in Made :
        (requests[r].handed \/ (th["app"].pc = "sbc_send" /\ call.req = r))
           => /\ requests[r].registered
              /\ InTable(r) \/ completions[r] # <<>> \/ InFlight(r) \/ Overwritten(r)

\* the response arrived before asyncSend was even called, and correlated
C8_Witness ==
    /\ th["app"].pc = "sbc_send"
    /\ ~requests[call.req].handed
    /\ Len(completions[call.req]) = 1
    /\ completions[call.req][1].response # <<>>

\* what encodeCommand accepts, in the words of the claim
Encodable(command) ==
    /\ command.bstId \in {Bem_PG_A1, Bem_PG_A4, Bem_PG_A6, Bem_PG_A8}
    /\ Len(command.data) <= 252

\* C9: a sendBemCommand call whose command does not encode (the BST id is not a
\* command id, or the payload is longer than 252 bytes) invokes the completion with
\* InvalidArgument within the call, registers nothing and sends nothing; a command
\* that encodes is registered.
C9_EncodeFailure ==
    [][\A r \in 1..MaxRequests :
          (Len(requests) = r - 1 /\ Len(requests') = r) =>
              LET q == requests'[r]
              IN  /\ q.encoded = Encodable(q.command)
                  /\ q.encoded => q.registered
                  /\ ~q.encoded =>
                        /\ completions'[r] = <<InvalidArgumentInvocation>>
                        /\ ~q.registered /\ ~q.handed
                        /\ th'["app"].pc = "app_idle"
                        /\ UNCHANGED <<pending_requests_, sequence_counter_,
                                       messageBuffer_, pending_recvs_>>]_vars

\* both kinds of encode failure have happened
C9_Witness ==
    /\ Len(requests) = 2
    /\ \E r, q \in Made :
          /\ ~requests[r].encoded /\ Len(requests[r].command.data) > 252
          /\ ~requests[q].encoded /\ requests[q].command.bstId = Nmea2000_GatewayToPC
          /\ completions[r] = <<InvalidArgumentInvocation>>
          /\ completions[q] = <<InvalidArgumentInvocation>>

\* the callbacks of the requests pending in table m
PendingCallbacks(m) == {m[k].callback : k \in DOMAIN m}

\* C10: clearPendingRequests takes every request pending at that moment out of the
\* table, leaves the table empty, and invokes each of them with (nullopt, Canceled).
C10_ClearCancelsAll ==
    [][\A t \in Threads :
          /\ (th[t].pc = "cp_collect" /\ th'[t].pc # "cp_collect") =>
                /\ pending_requests_' = EmptyMap
                /\ Range(th'[t].todo) = PendingCallbacks(pending_requests_)
                /\ Len(th'[t].todo) = Cardinality(DOMAIN pending_requests_)
          /\ (th[t].pc = "cp_invoke" /\ th'[t] # th[t]) =>
                /\ completions' = [completions EXCEPT ![Head(th[t].todo)] =
                                      Append(@, CanceledInvocation)]
                /\ th'[t].todo = Tail(th[t].todo) \/ th'[t].pc # "cp_invoke"]_vars

\* close has cancelled two pending requests and is about to close the transport
C10_Witness ==
    /\ th["app"].pc = "cl_transport"
    /\ pending_requests_ = EmptyMap
    /\ Len(requests) = 2
    /\ \A r \in Made : completions[r] = <<CanceledInvocation>>

\* everything close() is to have brought about
Closed ==
    /\ ~running_
    /\ th["rx"].pc = "rx_none"
    /\ pending_requests_ = EmptyMap
    /\ ~is_open_

\* the application thread is inside the second of two consecutive close() calls
InSecondClose == th["app"].ret # <<>> /\ th["app"].ret[Len(th["app"].ret)] = "app_reclosed"

\* C11: when close() returns, the receive loop has stopped (the thread is joined), no
\* BEM request is pending and the transport is closed; and no step of a second
\* close() called right after it invokes a callback or changes anything but the
\* caller's position.
C11_CloseIdempotent ==
    [][/\ (Alive' /\ th["app"].pc = "cl_transport" /\ th'["app"].pc = "app_closed")
            => Closed'
       /\ (th'["app"] # th["app"] /\ (InSecondClose \/ InSecondClose'))
            => /\ Closed /\ Closed'
               /\ \A t \in Threads \ {"app"} : th'[t] = th[t]
               /\ UNCHANGED <<clock, bemVars, tpVars, logVars, running_, bdtp_,
                              bem_responses_received_, completed, call, nextResp,
                              fault>>]_vars

\* a first close() that cancelled a pending request and closed the transport was
\* followed by a second close(), which has returned
C11_Witness ==
    /\ th["app"].pc = "app_reclosed"
    /\ fault = "none"
    /\ \E r \in Made : completions[r] = <<CanceledInvocation>>

\* the response thread t is about to hand to correlateResponse
NextResponse(t) == decodeResponse(Head(th[t].outs).datagram).response

\* thread t takes the step that calls correlateResponse
CallsCorrelate(t) ==
    /\ th[t].pc = "dl"
    /\ bem_responses_received_' = bem_responses_received_ + 1

\* C12: correlateResponse with a response whose (bst id, bem id) key is in the table
\* removes that entry and no other, leaves the other entries as they were and goes
\* on to invoke the removed entry's completion; with a response whose key is not in
\* the table it invokes no completion, leaves the table as it was and returns false
\* (the caller emits the response as an event).
C12_CorrelateFrame ==
    [][\A t \in Threads : CallsCorrelate(t) =>
          LET response == NextResponse(t)
              key == response.header.bstId * 65536 + response.header.bemId
          IN  /\ completions' = completions
              /\ IF key \in DOMAIN pending_requests_
                 THEN /\ DOMAIN pending_requests_' = DOMAIN pending_requests_ \ {key}
                      /\ \A k \in DOMAIN pending_requests_' :
                            pending_requests_'[k] = pending_requests_[k]
                      /\ th'[t].pc = "corr_cb"
                      /\ th'[t].held = <<[callback |-> pending_requests_[key].callback,
                                          response |-> response]>>
                      /\ events' = events
                 ELSE /\ pending_requests_' = pending_requests_
                      /\ th'[t].pc = "dl" /\ th'[t].held = <<>>
                      /\ events' = Append(events, UnsolicitedEvent(response))]_vars

\* a response has matched one of two pending entries: its entry is gone, the other
\* one is still in the table
C12_Witness ==
    \E t \in Threads :
        /\ th[t].pc = "corr_cb"
        /\ Cardinality(DOMAIN pending_requests_) = 1
        /\ \A k \in DOMAIN pending_requests_ :
              pending_requests_[k].callback # Head(th[t].held).callback

\* the keys of the entries that have expired at clock reading now, by the time and
\* the timeout of their registration
ExpiredAt(now) ==
    {k \in DOMAIN pending_requests_ :
        LET r == pending_requests_[k].callback
        IN  now - requests[r].sentAt >= requests[r].timeout}

\* C13: processTimeouts, with the clock reading it took on entry, removes exactly
\* the entries whose time since registration is at least their timeout, leaves every
\* other entry in the table as it was with no callback invoked, collects as many
\* callbacks as it removed entries (the count it returns) and invokes each of them
\* with (nullopt, Timeout).
C13_SweepExactlyExpired ==
    [][\A t \in Threads :
          /\ (th[t].pc = "pt_sweep" /\ th'[t].pc # "pt_sweep") =>
                LET expired == ExpiredAt(th[t].now)
                IN  /\ DOMAIN pending_requests_' = DOMAIN pending_requests_ \ expired
                    /\ \A k \in DOMAIN pending_requests_' :
                          pending_requests_'[k] = pending_requests_[k]
                    /\ Len(th'[t].todo) = Cardinality(expired)
                    /\ Range(th'[t].todo)
                         = {pending_requests_[k].callback : k \in expired}
                    /\ completions' = completions
          /\ (th[t].pc = "pt_invoke" /\ th'[t] # th[t]) =>
                /\ completions' = [completions EXCEPT ![Head(th[t].todo)] =
                                      Append(@, TimeoutInvocation)]
                /\ pending_requests_' = pending_requests_
                /\ th'[t].todo = Tail(th[t].todo) \/ th'[t].pc # "pt_invoke"]_vars

\* the application's sweep took the request that had expired and left the one that
\* had not
C13_Witness ==
    /\ th["app"].pc = "pt_invoke"
    /\ Len(th["app"].todo) = 1
    /\ requests[Head(th["app"].todo)].timeout = 0
    /\ \E k \in DOMAIN pending_requests_ :
          LET r == pending_requests_[k].callback
          IN  /\ requests[r].timeout = 1
              /\ requests[r].sentAt = th["app"].now

\* the last invocation logged for request r
LastInvocation(log, r) == log[r][Len(log[r])]

\* C14: on a correlation hit the completion receives the response, with Ok when the
\* response's device error code is 0 and with UnsupportedOperation when it is not;
\* neither handling a decoded BEM response nor invoking the completion calls the
\* session's error callback.
C14_DeviceErrorToCompletion ==
    [][\A t \in Threads :
          /\ CallsCorrelate(t) => errors' = errors
          /\ (th[t].pc = "corr_cb" /\ th'[t].pc # "corr_cb") =>
                LET h == Head(th[t].held)
                IN  /\ Len(completions'[h.callback]) = Len(completions[h.callback]) + 1
                    /\ LastInvocation(completions', h.callback).response = <<h.response>>
                    /\ LastInvocation(completions', h.callback).code =
                          (IF h.response.header.errorCode = 0
                           THEN "Ok" ELSE "UnsupportedOperation")
                    /\ \A r \in 1..MaxRequests \ {h.callback} :
                          completions'[r] = completions[r]
                    /\ errors' = errors]_vars

\* a response carrying device error 5 has completed a request with
\* UnsupportedOperation, and the error callback has not been called
C14_Witness ==
    /\ errors = <<>>
    /\ \E r \in Made :
          /\ Len(completions[r]) = 1
          /\ completions[r][1].code = "UnsupportedOperation"
          /\ completions[r][1].response # <<>>
          /\ completions[r][1].response[1].header.errorCode = 5

\* the fixed pairs of command id and response id
CommandResponsePairs ==
    {<<Bem_PG_A1, Bem_GP_A0>>, <<Bem_PG_A4, Bem_GP_A2>>,
     <<Bem_PG_A6, Bem_GP_A3>>, <<Bem_PG_A8, Bem_GP_A5>>}

\* request r was made for the command id that pairs with the response's id, with
\* the response's BEM id
Matches(r, response) ==
    /\ <<requests[r].command.bstId, response.header.bstId>> \in CommandResponsePairs
    /\ requests[r].command.bemId = response.header.bemId

\* C15: a response correlates with a pending request exactly when the request was
\* registered for the command id that pairs with the response's BST id (A1-A0, A4-A2,
\* A6-A3, A8-A5) with the response's BEM id; the sequence ids play no part.
C15_KeyedByIds ==
    [][\A t \in Threads : CallsCorrelate(t) =>
          LET response == NextResponse(t)
              matching == {r \in PendingCallbacks(pending_requests_) :
                             Matches(r, response)}
          IN  IF matching = {}
              THEN th'[t].pc = "dl" /\ pending_requests_' = pending_requests_
              ELSE /\ th'[t].pc = "corr_cb"
                   /\ Head(th'[t].held).callback \in matching
                   /\ PendingCallbacks(pending_requests_')
                        = PendingCallbacks(pending_requests_)
                            \ {Head(th'[t].held).callback}]_vars

\* the second request registered (sequence id 1), a command on A8, has been
\* completed by a response on A5 that carries sequence id 9
C15_Witness ==
    /\ Len(requests) = 2
    /\ requests[2].command.bstId = Bem_PG_A8
    /\ Len(completions[2]) = 1
    /\ completions[2][1].response # <<>>
    /\ completions[2][1].response[1].header.bstId = Bem_GP_A5
    /\ completions[2][1].response[1].header.sequenceId = 9

\* requests r and q were registered in this order under the same key, q is the last
\* registration under that key, neither has completed, and q has not been taken out
\* of the table
Colliding(r, q) ==
    /\ r \in Made /\ q \in Made /\ r < q
    /\ requests[r].registered /\ requests[q].registered
    /\ requests[r].key = requests[q].key
    /\ \A s \in Made : (s > q /\ requests[s].registered) => requests[s].key # requests[q].key
    /\ completions[r] = <<>> /\ completions[q] = <<>>
    /\ ~InFlight(q)

\* the keys under which the table holds an entry of r or of q
EntriesOf(r, q) ==
    {k \in DOMAIN pending_requests_ : pending_requests_[k].callback \in {r, q}}

\* C16: while two requests registered under the same (bst id, bem id) key are both
\* uncompleted, the table holds one entry for that key, that of the last
\* registration under the key (last writer wins), and a response with that key that
\* is correlated then is handed to the last registration's completion.
C16_LastWriterWins ==
    [][\A r, q \in 1..MaxRequests :
          /\ Colliding(r, q)' =>
                /\ EntriesOf(r, q)' = {requests'[q].key}
                /\ pending_requests_'[requests'[q].key].callback = q
          /\ Colliding(r, q) =>
                \A t \in Threads :
                    (/\ CallsCorrelate(t)
                     /\ buildResponseKey(NextResponse(t).header.bstId,
                                          NextResponse(t).header.bemId) = requests[q].key)
                       => /\ th'[t].pc = "corr_cb"
                          /\ Head(th'[t].held).callback = q]_vars

\* two getOperatingMode requests were outstanding together; the response completed
\* the second one and the first one was left uncompleted
C16_Witness ==
    /\ Len(requests) = 2
    /\ requests[1].registered /\ requests[2].registered
    /\ requests[1].key = requests[2].key
    /\ completions[1] = <<>>
    /\ Len(completions[2]) = 1
    /\ completions[2][1].response # <<>>

\* the stream position of the frame the i-th event was made from
EventFrame(i) == events[i].payload.header.sequenceId

\* C17: the events the session has delivered to the event callback are in the order
\* in which their frames completed in the byte stream the transport accepted: no
\* event precedes the event of an earlier frame, and no frame is delivered twice.
C17_EventsInStreamOrder ==
    \A i, j \in 1..Len(events) : i < j => EventFrame(i) < EventFrame(j)

\* three events: frame 3, then frame 5, which was cut over two injectData calls,
\* then frame 6, which came in the same call as the rest of frame 5
C17_Witness ==
    /\ Len(events) = 3
    /\ EventFrame(1) = 3 /\ EventFrame(2) = 5 /\ EventFrame(3) = 6

\* the transport holds the bytes of the device's n-th injectData call
Arrived(n) ==
    \E i \in 1..Len(messageBuffer_) : messageBuffer_[i] \in StreamMessages(n)

\* the event of the stream's q-th frame has been delivered
Delivered(q) == \E i \in 1..Len(events) : EventFrame(i) = q

\* C18: from its construction over an open transport on, with no further call by the
\* application, the session delivers the frames that arrive at the transport: the
\* whole frame that each accepted injectData call carries (frame 3n of call n) is
\* eventually delivered as an event.
C18_ReceivesAfterConstruction ==
    \A n \in 1..MaxMessages : [](Arrived(n) => <>Delivered(3 * n))

\* the same for a session whose receive loop has been started
ReceivesOnceStarted ==
    \A n \in 1..MaxMessages : []((Arrived(n) /\ running_) => <>Delivered(3 * n))

\* the receive thread has left receiveThreadFunc, or was never created
RxExited == th["rx"].pc \in {"rx_none", "rx_exit"}

\* SessionImpl::isConnected
isConnected == is_open_

\* C19: once the transport reports closed, the receive loop terminates and
\* isConnected() is false from then on.
C19_ClosureIsTerminal ==
    [](~is_open_ => (<>RxExited /\ []~isConnected))

\* the byte of the parse call that made this step, if it was one
Fed == th'["dev"].todo

\* the number of errors the emitters got during the call that made this step
ErrorsEmitted == Cardinality({i \in 1..Len(th'["dev"].outs) : th'["dev"].outs[i].kind = "err"})

\* the framer goes to state to with buffer buf
Goes(to, buf) == bdtp_'.state_ = to /\ bdtp_'.frame_buffer_ = buf

\* the rows of the transition table for Idle, GotDLE and InFrameGotDLE on STX, ETX
\* and other bytes, and for reset()
TableCommon(byte) ==
    CASE bdtp_.state_ = "Idle" ->
           /\ Goes(IF byte = DLE THEN "GotDLE" ELSE "Idle", bdtp_.frame_buffer_)
           /\ ErrorsEmitted = 0
      [] bdtp_.state_ = "GotDLE" ->
           /\ IF byte = STX THEN Goes("InFrame", <<>>)
              ELSE IF byte = DLE THEN Goes("GotDLE", bdtp_.frame_buffer_)
              ELSE Goes("Idle", bdtp_.frame_buffer_)
           /\ ErrorsEmitted = 0
      [] bdtp_.state_ = "InFrame" /\ byte = DLE ->
           Goes("InFrameGotDLE", bdtp_.frame_buffer_) /\ ErrorsEmitted = 0
      [] bdtp_.state_ = "InFrameGotDLE" /\ byte = STX ->
           Goes("InFrame", <<>>) /\ ErrorsEmitted = 1
      [] bdtp_.state_ = "InFrameGotDLE" /\ byte = ETX ->
           Goes("Idle", <<>>) /\ Len(th'["dev"].outs) <= 1
      [] bdtp_.state_ = "InFrameGotDLE" /\ byte \notin {DLE, STX, ETX} ->
           Goes("Idle", <<>>) /\ ErrorsEmitted = 1
      [] OTHER -> TRUE

\* the two rows that append to the buffer, as the table has them
TableAppends(byte) ==
    CASE bdtp_.state_ = "InFrame" /\ byte # DLE ->
           Goes("InFrame", Append(bdtp_.frame_buffer_, byte)) /\ ErrorsEmitted = 0
      [] bdtp_.state_ = "InFrameGotDLE" /\ byte = DLE ->
           Goes("InFrame", Append(bdtp_.frame_buffer_, DLE)) /\ ErrorsEmitted = 0
      [] OTHER -> TRUE

\* the two rows that append to the buffer, with the size cap
TableAppendsCapped(byte) ==
    CASE bdtp_.state_ = "InFrame" /\ byte # DLE ->
           IF Len(bdtp_.frame_buffer_) < kMaxFrameSize
           THEN Goes("InFrame", Append(bdtp_.frame_buffer_, byte)) /\ ErrorsEmitted = 0
           ELSE Goes("Idle", <<>>) /\ ErrorsEmitted = 1
      [] bdtp_.state_ = "InFrameGotDLE" /\ byte = DLE ->
           /\ IF Len(bdtp_.frame_buffer_) < kMaxFrameSize
              THEN Goes("InFrame", Append(bdtp_.frame_buffer_, DLE))
              ELSE Goes("InFrame", bdtp_.frame_buffer_)
           /\ ErrorsEmitted = 0
      [] OTHER -> TRUE

RoundTripDone == th["dev"].held # <<>> /\ th["dev"].todo = <<>> /\ nextResp > 1

\* C21: for every BST id and every body of 0 to 255 bytes, with any mix of 0x10,
\* 0x02 and 0x03 in it, parsing the output of encodeBst with a framer in Idle emits
\* exactly one datagram with the same id, store length and body, emits no error and
\* leaves the framer in Idle.
C21_EncodeParseRoundTrip ==
    RoundTripDone =>
        /\ th["dev"].outs = <<EmitMessage(th["dev"].held[1])>>
        /\ bdtp_.state_ = "Idle"
        /\ bdtp_.frames_dropped_ = 0

\* a body of 255 DLE bytes under the id 0x10 came back
C21_Witness ==
    /\ RoundTripDone
    /\ th["dev"].held[1].bstId = DLE
    /\ th["dev"].held[1].data = [i \in 1..255 |-> DLE]
    /\ th["dev"].outs = <<EmitMessage(th["dev"].held[1])>>

\* C22: however a byte stream is split into consecutive chunks, down to single
\* bytes, feeding the chunks to parse in order emits the same datagrams and errors
\* in the same order, and ends in the same framer state, buffer and counters, as one
\* parse call on the whole stream.
C22_ChunkingInvariant ==
    LET whole == parse(NewBdtp, th["dev"].todo)
    IN  bdtp_ = whole.p /\ th["dev"].outs = whole.out

\* the valid frame 10 02 00 00 00 10 03 was fed in seven calls of one byte and its
\* datagram came out
C22_Witness ==
    /\ th["dev"].todo = <<DLE, STX, 0, 0, 0, DLE, ETX>>
    /\ nextResp = 8
    /\ th["dev"].outs = <<EmitMessage([bstId |-> 0, storeLength |-> 0, data |-> <<>>])>>

\* this step is a parse call whose byte is the ETX of a DLE ETX inside a frame
Completes == bdtp_.state_ = "InFrameGotDLE" /\ Fed = <<ETX>>

\* the unescaped bytes of the frame in progress
Unescaped == bdtp_.frame_buffer_

\* what the emitters got during the call that made this step
Emitted == th'["dev"].outs

DatagramEmitted == \E i \in 1..Len(Emitted) : Emitted[i].kind = "msg"

\* the call emitted one MalformedFrame error and nothing else, and counted a
\* dropped frame
DroppedWithOneError ==
    /\ Len(Emitted) = 1
    /\ Emitted[1].kind = "err" /\ Emitted[1].code = "MalformedFrame"
    /\ bdtp_'.frames_dropped_ = bdtp_.frames_dropped_ + 1
    /\ bdtp_'.frames_received_ = bdtp_.frames_received_

\* C23: the framer emits a datagram only on completing a frame whose unescaped
\* bytes sum to 0 modulo 256, and a completed frame whose unescaped bytes sum to
\* something else is dropped with one MalformedFrame error, counted in
\* frames_dropped, without a datagram.
C23_OnlyZeroSumDelivered ==
    [][/\ (Fed # <<>> /\ DatagramEmitted) =>
             (Completes /\ calculateChecksum(Unescaped) = 0)
       /\ (Completes /\ calculateChecksum(Unescaped) # 0) => DroppedWithOneError]_vars

\* C24: a completed frame with a length byte whose unescaped length is not
\* 2 + store_len + 1, shorter or longer, is rejected: one error, frames_dropped
\* incremented, no datagram.
C24_LengthMismatchRejected ==
    [][(/\ Completes
        /\ Len(Unescaped) >= 2
        /\ Len(Unescaped) # 2 + Unescaped[2] + 1) => DroppedWithOneError]_vars

\* C25: every completed frame with 0, 1 or 2 unescaped bytes is dropped with
\* exactly one MalformedFrame error, counted in frames_dropped, without a datagram.
C25_ShortFrameDropped ==
    [][(Completes /\ Len(Unescaped) < 3) => DroppedWithOneError]_vars

\* this step is a parse call whose byte would make the frame in progress longer
\* than the cap: an ordinary byte, or the second DLE of an escaped DLE
WouldExceedCap ==
    /\ Fed # <<>>
    /\ Len(Unescaped) = kMaxFrameSize
    /\ \/ bdtp_.state_ = "InFrame" /\ Fed[1] # DLE
       \/ bdtp_.state_ = "InFrameGotDLE" /\ Fed[1] = DLE

\* C26: whenever the frame in progress would grow beyond the size cap, by an
\* ordinary byte or by an escaped DLE, the frame is dropped with one MalformedFrame
\* error and the framer returns to Idle with an empty buffer, so that no datagram
\* comes out of a frame whose unescaped content exceeded the cap.
C26_OversizeDropped ==
    [][WouldExceedCap => (DroppedWithOneError /\ Goes("Idle", <<>>))]_vars

AbortError == EmitError("BDTP frame aborted - new frame started")

\* C27: a DLE STX seen while a frame is in progress aborts that frame with exactly
\* one MalformedFrame error, discards its bytes and starts a new frame: a valid
\* frame handed to a framer that is inside a frame yields the abort error followed
\* by the datagram of the valid frame, and the input 10 02 AA BB 10 02 <valid
\* frame> 10 03 yields one error followed by one datagram, of id 0xCC.
C27_AbortStartsNewFrame ==
    [][\A d \in RecDatagrams :
          ((\/ bdtp_.state_ = "InFrame" /\ Fed = encodeBst(d)
            \/ bdtp_.state_ = "Idle" /\ Fed = PartialFrame \o encodeBst(d))
             => /\ Emitted = <<AbortError, EmitMessage(d)>>
                /\ bdtp_'.frames_dropped_ = bdtp_.frames_dropped_ + 1
                /\ bdtp_'.frames_received_ = bdtp_.frames_received_ + 1
                /\ Goes("Idle", <<>>))]_vars

\* the example input was parsed in one call from Idle: one error, then the
\* datagram of id 0xCC
C27_Witness ==
    /\ th["dev"].todo = AbortExample
    /\ bdtp_.frames_dropped_ = 1 /\ bdtp_.frames_received_ = 1
    /\ th["dev"].outs = <<AbortError,
                          EmitMessage([bstId |-> 204, storeLength |-> 0, data |-> <<>>])>>

\* C28: once the framer has emitted an error for a dropped frame (bad checksum,
\* invalid escape, abort, oversize, too short), the next complete well-formed frame
\* in the stream is emitted as a datagram: the call that is handed it ends with
\* its datagram and counts it as received.
C28_RecoversAfterError ==
    [][\A d \in RecDatagrams :
          (bdtp_.frames_dropped_ > 0 /\ Fed = encodeBst(d))
             => /\ Emitted # <<>>
                /\ Emitted[Len(Emitted)] = EmitMessage(d)
                /\ bdtp_'.frames_received_ = bdtp_.frames_received_ + 1
                /\ Goes("Idle", <<>>)]_vars

\* two frames were dropped, the second for an invalid escape, and the frame of id
\* 0x94 handed over next came out
C28_Witness ==
    /\ bdtp_.frames_dropped_ = 2 /\ bdtp_.frames_received_ = 1
    /\ th["dev"].todo = encodeBst([bstId |-> 148, storeLength |-> 1, data |-> <<66>>])
    /\ th["dev"].outs = <<EmitMessage([bstId |-> 148, storeLength |-> 1, data |-> <<66>>])>>

\* RingBuffer::size and RingBuffer::available
size == head_ - tail_
available == Capacity - size

\* C29: after any sequence of write, read, peek and clear the ring behaves as a FIFO
\* byte queue bounded by Capacity: write of n bytes accepts and returns
\* min(n, Capacity - size), read and peek return the oldest accepted bytes in write
\* order, across wrap-around, only read and clear reduce size, and
\* 0 <= size <= Capacity with size + available = Capacity.
C29_RingIsBoundedFifo ==
    [][/\ ringLog'.last.ret = ringLog'.last.expect
       /\ size' = Len(ringLog'.queue)
       /\ peek(head_', tail_', buffer_', Capacity) = ringLog'.queue
       /\ size' >= 0 /\ size' <= Capacity /\ size' + available' = Capacity
       /\ size' < size => ringLog'.last.op \in {"read", "clear"}]_vars

\* a read came back with three bytes that lie across the end of the array
C29_Witness ==
    /\ ringLog.last.op = "read"
    /\ Len(ringLog.last.ret) = 3
    /\ ringLog.last.ret = ringLog.last.expect
    /\ Masked(tail_) \in 1..2
    /\ tail_ > Capacity

\* this step is the producer storing a byte of position pos of the stream
ProducerStores(pos) ==
    /\ producer.pc = "w_copy"
    /\ producer'.i = producer.i + 1
    /\ pos = producer.head + producer.i

\* C30: with one thread in write and another in read on the same ring, interleaved
\* at the single loads and stores of head_ and tail_ and the single slot copies, the
\* reader returns the accepted bytes in order, each once and none that was not
\* written, and the writer never stores into a slot whose byte has not been read.
C30_SpscSafe ==
    [][/\ ringLog'.delivered = [k \in 1..Len(ringLog'.delivered) |-> k % 256]
       /\ Len(ringLog'.delivered) <= head_'
       /\ \A pos \in 0..(MaxHead + MaxSpan) :
             ProducerStores(pos) => pos - Capacity < tail_]_vars

\* the reader has returned more bytes than the ring holds, and both threads are in
\* the middle of their copies
C30_Witness ==
    /\ Len(ringLog.delivered) > Capacity
    /\ producer.pc = "w_copy" /\ producer.i = 1
    /\ consumer.pc = "r_copy" /\ consumer.i = 1

\* C31: a message buffer of capacity N never holds more than N messages; enqueue on
\* a full buffer returns false and leaves the stored messages as they were, any
\* other enqueue stores the message behind the others; dequeue hands out the oldest
\* stored message whole, and the messages handed out followed by the messages still
\* stored are the accepted messages that were not cleared, each once, in the order
\* they were accepted.
C31_MessageRingBoundedFifo ==
    /\ Len(messageBuffer_) <= maxMessages_
    /\ Handed \o messageBuffer_ = Kept
    /\ lbLog.last.op = "enqueue" =>
          IF Len(lbLog.last.before) >= maxMessages_
          THEN ~lbLog.last.ok /\ messageBuffer_ = lbLog.last.before
          ELSE lbLog.last.ok /\ messageBuffer_ = Append(lbLog.last.before, lbLog.last.message)
    /\ lbLog.last.op = "dequeue" =>
          IF lbLog.last.before = <<>>
          THEN ~lbLog.last.ok /\ messageBuffer_ = <<>>
          ELSE /\ lbLog.last.ok
               /\ lbLog.last.message = Head(lbLog.last.before)
               /\ messageBuffer_ = Tail(lbLog.last.before)

\* a buffer of capacity two or more refused a message while full, after two messages
\* of different sizes had been dequeued
C31_Witness ==
    /\ maxMessages_ >= 2
    /\ lbLog.last.op = "enqueue" /\ ~lbLog.last.ok
    /\ Len(lbLog.last.before) = maxMessages_
    /\ Len(Handed) >= 2
    /\ Len(Handed[1]) # Len(Handed[2])

\* the receives submitted so far, numbered in the order of submission
Recvs == 1..Len(lbLog.recvs)

\* the receives waiting in the transport's queue
Pending == {pending_recvs_[i] : i \in 1..Len(pending_recvs_)}

\* the messages the transport accepted so far
AcceptedData == {lbLog.accepted[i].data : i \in 1..Len(lbLog.accepted)}

\* the completion of receive r was given Ok and one whole accepted message
GivenMessage(r) ==
    /\ Len(lbLog.recvs[r].invocations) = 1
    /\ lbLog.recvs[r].invocations[1].code = "Ok"
    /\ lbLog.recvs[r].invocations[1].data \in AcceptedData

\* the completion of receive r was given code and no data
GivenOnly(r, code) == lbLog.recvs[r].invocations = <<[code |-> code, data |-> <<>>]>>

\* C32: every asyncRecv has its completion invoked at most once, and exactly once
\* unless it is still waiting in an open transport that holds no message: inside
\* the call with NotConnected when the transport is not open, inside the call with
\* Ok and the oldest message when one is stored, and otherwise later, with Ok and one
\* message by the call that stores one or with Canceled by close.
C32_RecvCompletesOnce ==
    /\ \A r \in Recvs :
          LET rec == lbLog.recvs[r]
          IN  /\ Len(rec.invocations) <= 1
              /\ rec.invocations = <<>> <=> r \in Pending
              /\ ~rec.open => GivenOnly(r, "NotConnected") /\ rec.atOnce = 1
              /\ (rec.open /\ rec.stored > 0) => GivenMessage(r) /\ rec.atOnce = 1
              /\ (rec.open /\ rec.stored = 0) =>
                    /\ rec.atOnce = 0
                    /\ r \in Pending \/ GivenMessage(r) \/ GivenOnly(r, "Canceled")
    /\ Pending # {} => is_open_ /\ messageBuffer_ = <<>>

\* the first receive was refused by the closed transport, the second waited and was
\* given a message, the third waited and was canceled by close
C32_Witness ==
    /\ Len(lbLog.recvs) = 3
    /\ GivenOnly(1, "NotConnected")
    /\ lbLog.recvs[2].atOnce = 0 /\ GivenMessage(2)
    /\ lbLog.recvs[3].atOnce = 0 /\ GivenOnly(3, "Canceled")

\* C33: the messages given to receive completions, followed by the messages still
\* stored, are the accepted messages that were not discarded, each whole and once,
\* in the order they were accepted; the receives given a message are given it in
\* the order they were submitted, each exactly one message, and no receive still
\* waiting is older than one that was given a message.
C33_OldestRecvGetsOldestMessage ==
    /\ Handed \o messageBuffer_ = Kept
    /\ \A i \in 1..Len(lbLog.delivered) :
          /\ lbLog.recvs[lbLog.delivered[i].recv].invocations =
                <<[code |-> "Ok", data |-> lbLog.delivered[i].data]>>
          /\ \A j \in 1..Len(lbLog.delivered) :
                i < j => lbLog.delivered[i].recv < lbLog.delivered[j].recv
          /\ \A p \in Pending : lbLog.delivered[i].recv < p
    /\ \A i, j \in 1..Len(pending_recvs_) : i < j => pending_recvs_[i] < pending_recvs_[j]

\* three messages were delivered: the first to a receive that was waiting for it, the
\* second to a receive submitted while two messages were stored
C33_Witness ==
    /\ Len(lbLog.delivered) = 3
    /\ lbLog.recvs[lbLog.delivered[1].recv].atOnce = 0
    /\ lbLog.recvs[lbLog.delivered[2].recv].atOnce = 1
    /\ lbLog.recvs[lbLog.delivered[2].recv].stored = 2

\* a step of asyncSend
Sends == lbLog'.sent # lbLog.sent

\* C34: asyncSend on an open transport with loopback enabled whose message buffer is
\* full completes with RateLimited and zero bytes written, and leaves the stored
\* messages, the pending receives, every receive completion and the bytes-sent total
\* as they were.
C34_FullBufferRateLimits ==
    [][(Sends /\ is_open_ /\ loopback_enabled_ /\ Len(messageBuffer_) >= maxMessages_) =>
          /\ lbLog'.sent[1].code = "RateLimited"
          /\ lbLog'.sent[1].written = 0
          /\ UNCHANGED <<messageBuffer_, pending_recvs_, total_bytes_sent_>>
          /\ lbLog'.recvs = lbLog.recvs
          /\ lbLog'.delivered = lbLog.delivered
          /\ lbLog'.accepted = lbLog.accepted]_vars

\* a send was refused by a full buffer after an earlier send had been counted
C34_Witness ==
    /\ lbLog.sent # <<>>
    /\ lbLog.sent[1].code = "RateLimited"
    /\ Len(messageBuffer_) = maxMessages_
    /\ total_bytes_sent_ > 0

\* encode94 accepted the frame the caller holds and decode94 has run on its output
B94Done == th["dev"].held # <<>> /\ th["dev"].todo = <<>> /\ Len(th["dev"].outs) = 2

\* C35: for every BST-94 frame encode94 accepts (payload of 0 to 255 bytes), the
\* store length byte of the encoding is 6 + the payload length, and decode94 of the
\* encoding succeeds with the priority, PGN, destination and payload of the frame.
C35_Encode94RoundTrip ==
    B94Done =>
        LET frame == th["dev"].held[1]
            encoded == th["dev"].outs[1]
            decoded == th["dev"].outs[2]
        IN  /\ encoded.outData[2] = storeLen94Unwrapped(Len(frame.data))
            /\ decoded.ok
            /\ decoded.frame.priority = frame.priority
            /\ decoded.frame.pgn = frame.pgn
            /\ decoded.frame.destination = frame.destination
            /\ decoded.frame.data = frame.data

\* thread t hands the datagram at the head of what the framer emitted to
\* handleBstDatagram, and the datagram is a BST-D0 one with a whole header
HandlesD0(t) ==
    /\ th[t].pc = "dl"
    /\ th[t].outs # <<>>
    /\ th'[t].outs = Tail(th[t].outs)
    /\ Head(th[t].outs).kind = "msg"
    /\ Head(th[t].outs).datagram.bstId = Nmea2000_D0
    /\ Len(Head(th[t].outs).datagram.data) >= kBstD0OffData

\* the 16-bit length of a raw record
RawLength(rawBst) == readU16LE(rawBst, 1)

\* C36: when the session is handed a BST-D0 datagram whose body is the 10-byte
\* header followed by data, the record it presents to the decoder carries the 16-bit
\* length 3 + body length, and the step delivers exactly one "bst" event with a D0
\* frame whose data is the body after the header, and no error.
C36_D0DatagramDelivered ==
    [][\A t \in Threads : HandlesD0(t) =>
          LET datagram == Head(th[t].outs).datagram
          IN  /\ RawLength(rawBstOf(datagram)) = 3 + Len(datagram.data)
              /\ errors' = errors
              /\ Len(events') = Len(events) + 1
              /\ events'[Len(events')].protocol = "bst"
              /\ events'[Len(events')].payload.bstId = Nmea2000_D0
              /\ events'[Len(events')].payload.data =
                    SubSeq(datagram.data, kBstD0OffData + 1, Len(datagram.data))]_vars

\* thread t is inside a receive completion that the transport invoked from a call
\* (asyncRecv, asyncSend or injectData) in which t still holds the transport's mutex
InCompletionUnderTransportLock(t) ==
    /\ th[t].pc \in {"dl", "corr_cb"}
    /\ tMutex = t

\* C37: no user callback (the event callback or a BEM completion) is invoked on the
\* receive path by a thread that holds the transport's mutex, so that the callback
\* may call asyncSend or sendBemCommand, which lock it.
C37_CallbacksOutsideTransportLock ==
    [][\A t \in Threads :
          InCompletionUnderTransportLock(t) =>
              /\ events' = events
              /\ completions' = completions]_vars

\* the receive completions queued in the transport whose loop iteration has ended
StalePending == {i \in 1..Len(pending_recvs_) : pending_recvs_[i] = "stale"}

\* C38: the transport never invokes a receive completion of the receive loop after
\* the iteration that submitted it has ended: no thread starts running such a
\* completion on arriving data, and close finds none to cancel.
C38_NoCompletionAfterIteration ==
    [][/\ \A t \in Threads : th'[t].handle # "stale"
       /\ (is_open_ /\ ~is_open_') => StalePending = {}]_vars

\* the call that made this step emitted the datagram d
EmitsDatagram(d) == \E i \in 1..Len(Emitted) : Emitted[i] = EmitMessage(d)

HandlesResponse(t) ==
    /\ th[t].pc = "dl"
    /\ th[t].outs # <<>>
    /\ th'[t].outs = Tail(th[t].outs)
    /\ Head(th[t].outs).kind = "msg"
    /\ isBemResponse(Head(th[t].outs).datagram.bstId)
    /\ decodeResponse(Head(th[t].outs).datagram).ok

\* the response thread t is about to handle
Arriving(t) == decodeResponse(Head(th[t].outs).datagram).response

\* the correlation key of a response
KeyOf(response) == buildResponseKey(response.header.bstId, response.header.bemId)

\* request r was registered under the key, has completed with Timeout and has not
\* been invoked otherwise
TimedOutUnder(r, key) ==
    /\ requests[r].registered
    /\ requests[r].key = key
    /\ completions[r] = <<TimeoutInvocation>>

\* a request other than r was registered under the key and has not completed
OtherPendingUnder(r, key) ==
    \E q \in Made \ {r} :
        requests[q].registered /\ requests[q].key = key /\ completions[q] = <<>>

\* C40: a response handled after the request registered under its key has completed
\* with Timeout, while no other request of that key awaits completion, invokes no
\* completion and is delivered to the event callback as one "bem" event carrying the
\* response.
C40_LateResponseIsUnsolicited ==
    [][\A t \in Threads : \A r \in Made :
          (/\ HandlesResponse(t)
           /\ TimedOutUnder(r, KeyOf(Arriving(t)))
           /\ ~OtherPendingUnder(r, KeyOf(Arriving(t))))
          => /\ completions' = completions
             /\ events' = Append(events, UnsolicitedEvent(Arriving(t)))
             /\ th'[t].pc = "dl"]_vars

\* a request timed out, and the response to it that came afterwards is the one event
\* delivered; the completion was invoked once only
C40_Witness ==
    \E r \in Made :
        /\ completions[r] = <<TimeoutInvocation>>
        /\ bem_responses_received_ = 1
        /\ Len(events) = 1
        /\ events[1].protocol = "bem"
        /\ KeyOf(events[1].payload) = requests[r].key
        /\ \A t \in Threads : th[t].pc # "dl"

====
